---- MODULE Spec2Model ----
(***************************************************************************)
(* State-machine model of the in-memory filesystem of transientvariable/   *)
(* fs-go: the directory tree (memfs.MemFS), the content cells (memfs.fd),  *)
(* the file handles (memfs.File) and the metadata records (fs.Entry,       *)
(* fs.Attribute).                                                          *)
(*                                                                         *)
(* Conventions.                                                            *)
(*  - A path string is a sequence of segments; "a/b" is <<"a","b">>, "."   *)
(*    is <<".">> and the empty string is <<>>.                             *)
(*  - A directory (a *MemFS) and a regular file's cell (a *fd) are named   *)
(*    by their absolute path from the root; nothing is ever removed or     *)
(*    renamed, so the path identifies the object.  A cell whose entry was  *)
(*    taken out of its directory by a later AddEntry of the same name is   *)
(*    kept under a path at which the tree has no entry.                    *)
(*  - A time is a natural number; 0 is Go's zero time.Time.                *)
(*  - An error is a string; "nil" is no error, "panic" is a Go run-time    *)
(*    panic, "blocked" is a call that never returns, "fatal" is a crash    *)
(*    of the process that cannot be recovered.                             *)
(*  - A handler is one atomic step.  A call that has to wait for a lock    *)
(*    that is never released parks its thread for good.                    *)
(***************************************************************************)
EXTENDS Integers, Sequences, FiniteSets, TLC

VARIABLES
    entries,    \* MemFS.entries of every directory: path -> "none" | "dir" | "fd"
    attrs,      \* fs.Attribute of every entry: path -> [size, ctime, mtime]
    data,       \* fd.data of every cell (len(data) = cap(data) after make)
    fdmu,       \* fd.mutex of every cell: [r: read holders, wp: writer waiting]
    files,      \* the File objects handed out by open
    thr,        \* threads: "idle" or "blocked"
    now,        \* the wall clock read by time.Now()
    hi,         \* history: highest offset written to a cell since its last truncation
    ret         \* history: the last call and what it returned

vars == <<entries, attrs, data, fdmu, files, thr, now, hi, ret>>

(***************************************************************************)
(* Bounds of the model.                                                    *)
(***************************************************************************)
MaxDepth   == 2     \* longest path, in segments
MaxFiles   == 3     \* File objects ever handed out
NumThreads == 2     \* calling threads
MaxCap     == 6     \* largest buffer capacity a write may allocate
MaxTime    == 3     \* last clock value
MaxRLock   == 4     \* read holders counted on one cell
MaxOff     == 3     \* largest offset passed to seek and readAt
Names      == {"a", "b"}
Threads    == 1..NumThreads
Handles    == 1..MaxFiles

(***************************************************************************)
(* Program constants.                                                      *)
(***************************************************************************)
O_RDONLY == 0
O_WRONLY == 1
O_RDWR   == 2
O_CREATE == 64
O_TRUNC  == 512
O_APPEND == 1024
MaxContentLen == 2147483647      \* int(^uint(0) >> 1) of a 32-bit build
growthNum == 1618                \* growthFactor = float32(1.618) = growthNum / growthDen
growthDen == 1000
SeekStart   == 0
SeekCurrent == 1
SeekEnd     == 2

(***************************************************************************)
(* Helpers.                                                                *)
(***************************************************************************)
Min(a, b) == IF a < b THEN a ELSE b
Max(a, b) == IF a > b THEN a ELSE b
SeqsUpTo(S, n) == UNION {[1..k -> S] : k \in 0..n}
Paths == SeqsUpTo(Names, MaxDepth)
Root == << >>
Front(s) == SubSeq(s, 1, Len(s) - 1)
Last(s) == s[Len(s)]
IsPrefix(p, q) == Len(p) <= Len(q) /\ SubSeq(q, 1, Len(p)) = p

\* flag&bit != 0, for a bit that is a power of two
HasFlag(flag, bit) == (flag \div bit) % 2 = 1

\* The tree part of the state, passed through the pure operators below.
Tree == [entries |-> entries, attrs |-> attrs, data |-> data]

\* a value bound to a name: v is computed once and handed to what follows
Let(v, Op(_)) == Op(v)

(***************************************************************************)
(* Paths: fs.CleanPath, fs.SplitPath, path/filepath.                       *)
(***************************************************************************)
\* io/fs.ValidPath: "." or a non-empty slash-separated sequence of elements
\* none of which is empty, "." or "..".
ValidPath(p) ==
    \/ p = <<".">>
    \/ /\ Len(p) > 0
       /\ \A i \in 1..Len(p) : p[i] \notin {"", ".", ".."}

\* The paths of the model hold no blanks, no trailing separator and no volume.
CleanPath(p) ==
    IF ~ValidPath(p) THEN [err |-> "ErrInvalid", path |-> p]
    ELSE [err |-> "nil", path |-> p]

SplitPath(p) == SelectSeq(p, LAMBDA s : s # "")

\* filepath.Dir and filepath.Base of a clean path
Dir(p) == IF Len(p) <= 1 THEN <<".">> ELSE Front(p)
Base(p) == IF Len(p) = 0 THEN "." ELSE Last(p)

(***************************************************************************)
(* Metadata: fs.Attribute and fs.Entry.                                    *)
(***************************************************************************)
NoAttrs == [size |-> 0, ctime |-> 0, mtime |-> 0]

\* NewAttributes(WithMode(mode)) at clock value t: ctime is the clock, mtime unset.
NewAttributes(t) == [size |-> 0, ctime |-> t, mtime |-> 0]

\* Entry.SetModTime
SetModTime(a, t) ==
    IF t = 0 \/ t = a.mtime THEN [err |-> "nil", attrs |-> a]
    ELSE IF t < a.mtime THEN [err |-> "ErrMtimeMismatch", attrs |-> a]
    ELSE [err |-> "nil", attrs |-> [a EXCEPT !.mtime = t]]

\* Entry.SetSize: only for an entry that is no directory
SetSize(a, isDir, s) == IF isDir THEN a ELSE [a EXCEPT !.size = s]

(***************************************************************************)
(* The tree: entry, find, stat.                                            *)
(***************************************************************************)
NoEntry(err) == [err |-> err, kind |-> "nil", path |-> << >>, dot |-> FALSE]

\* entry(mfs, name): the trie of directory d looked up under one name.  Every
\* directory holds the cell "." that newDir adds to it.
entry(S, d, n) ==
    IF n = "." THEN [err |-> "nil", kind |-> "fd", path |-> d, dot |-> TRUE]
    ELSE IF Len(d) >= MaxDepth \/ n \notin Names THEN NoEntry("ErrNotExist")
    ELSE IF S.entries[Append(d, n)] = "none" THEN NoEntry("ErrNotExist")
    ELSE [err |-> "nil", kind |-> S.entries[Append(d, n)],
          path |-> Append(d, n), dot |-> FALSE]

\* fsEntry.entry.IsDir(): a directory, or the cell "." of one
IsDir(e) == e.kind = "dir" \/ e.dot

RECURSIVE find(_, _, _)
find(S, d, p) ==
    IF p = <<".">> THEN entry(S, d, ".")
    ELSE IF ~ValidPath(p) THEN NoEntry("ErrInvalid")
    ELSE IF Len(SplitPath(p)) > 1 THEN
        Let(entry(S, d, p[1]), LAMBDA e :
            IF e.err # "nil" THEN e
            ELSE IF IsDir(e) THEN find(S, e.path, Tail(p))
            ELSE NoEntry("ErrNotExist"))
    ELSE entry(S, d, p[1])

stat(S, d, p) ==
    IF CleanPath(p).err # "nil" THEN NoEntry(CleanPath(p).err)
    ELSE find(S, d, p)

(***************************************************************************)
(* The tree: newfd, newDir, mkdir, mkdirAll.                               *)
(* mode is the ModeDir bit of the FileMode argument; the permission bits   *)
(* are informational and not modelled.                                     *)
(***************************************************************************)
NoFd == [path |-> << >>, dot |-> FALSE]

\* entries.AddEntry(&fsEntry{...}) of a new child of kind k at path p, created at clock t
AddEntry(S, p, k, t) ==
    [S EXCEPT !.entries[p] = k, !.attrs[p] = NewAttributes(t), !.data[p] = << >>]

newfd(S, d, n, flag, mode, t) ==
    Let(entry(S, d, n), LAMBDA e :
        IF e.err # "nil" THEN
            IF e.err = "ErrNotExist" /\ HasFlag(flag, O_CREATE)
            THEN [err |-> "nil", fd |-> [path |-> Append(d, n), dot |-> FALSE],
                  S |-> AddEntry(S, Append(d, n), "fd", t)]
            ELSE [err |-> e.err, fd |-> NoFd, S |-> S]
        ELSE IF e.kind = "fd" THEN [err |-> "nil", fd |-> [path |-> e.path, dot |-> e.dot], S |-> S]
        ELSE [err |-> "nil", fd |-> [path |-> e.path, dot |-> TRUE], S |-> S])

\* newDir(name, mode) followed by the caller's AddEntry: a directory node with
\* its own "." cell, created at clock t
newDir(S, p, t) == AddEntry(S, p, "dir", t)

\* a mkdir that puts the new directory in the place of whatever has the name
mkdirInReplace(S, mfs, p, t) ==
    Let(newDir(S, Append(mfs, Base(p)), t), LAMBDA S1 :
        [err |-> "nil", dir |-> Append(mfs, Base(p)),
         S |-> [S1 EXCEPT !.attrs[mfs] = SetModTime(S1.attrs[mfs], t).attrs]])

\* the part of mkdir that follows the lookup of the parent directory mfs
mkdirIn(S, mfs, p, t) ==
    Let(entry(S, mfs, Base(p)), LAMBDA c :
        IF c.err = "nil" THEN [err |-> "ErrExist", dir |-> mfs, S |-> S]
        ELSE IF c.err # "ErrNotExist" THEN [err |-> c.err, dir |-> mfs, S |-> S]
        ELSE
            Let(newDir(S, Append(mfs, Base(p)), t), LAMBDA S1 :
            Let(SetModTime(S1.attrs[mfs], t), LAMBDA m :
                IF m.err # "nil" THEN [err |-> m.err, dir |-> mfs, S |-> S1]
                ELSE [err |-> "nil", dir |-> Append(mfs, Base(p)),
                      S |-> [S1 EXCEPT !.attrs[mfs] = m.attrs]])))

mkdir(S, d, p, mode, t) ==
    IF p = <<".">> THEN [err |-> "ErrInvalid", dir |-> d, S |-> S]
    ELSE IF ~ValidPath(p) THEN [err |-> "ErrInvalid", dir |-> d, S |-> S]
    ELSE
        Let(IF Len(SplitPath(p)) > 1 THEN stat(S, d, Dir(p))
            ELSE [err |-> "nil", kind |-> "dir", path |-> d, dot |-> FALSE],
            LAMBDA e :
                IF e.err # "nil" THEN [err |-> "ErrInvalid", dir |-> d, S |-> S]
                ELSE IF e.kind # "dir" THEN [err |-> "panic", dir |-> d, S |-> S]
                ELSE mkdirIn(S, e.path, p, t))

\* the loop of mkdirAll over the segments p[i..] starting in directory mfs
RECURSIVE mkdirAllFrom(_, _, _, _, _, _)
mkdirAllFrom(S, mfs, p, i, mode, t) ==
    IF i > Len(p) THEN [err |-> "nil", dir |-> mfs, S |-> S]
    ELSE
        Let(stat(S, mfs, <<p[i]>>), LAMBDA s :
            IF s.err # "nil" /\ s.err # "ErrNotExist" THEN [err |-> s.err, dir |-> mfs, S |-> S]
            ELSE IF s.err = "nil" THEN
                IF s.kind # "dir" THEN [err |-> "panic", dir |-> mfs, S |-> S]
                ELSE mkdirAllFrom(S, s.path, p, i + 1, mode, t)
            ELSE
                Let(mkdir(S, mfs, <<p[i]>>, mode, t), LAMBDA r :
                    IF r.err # "nil" THEN r
                    ELSE mkdirAllFrom(r.S, r.dir, p, i + 1, mode, t)))

\* a mkdirAll that refuses a path that is already there
mkdirAllExclusive(S, mfs, p, mode, t) ==
    IF CleanPath(p).err # "nil" THEN [err |-> CleanPath(p).err, dir |-> mfs, S |-> S]
    ELSE IF stat(S, mfs, p).err = "nil" THEN [err |-> "ErrExist", dir |-> mfs, S |-> S]
    ELSE mkdirAllFrom(S, mfs, SplitPath(p), 1, mode, t)

mkdirAll(S, mfs, p, mode, t) ==
    IF CleanPath(p).err # "nil" THEN [err |-> CleanPath(p).err, dir |-> mfs, S |-> S]
    ELSE mkdirAllFrom(S, mfs, SplitPath(p), 1, mode, t)

(***************************************************************************)
(* File objects: newFile, MemFS.open, create.                              *)
(***************************************************************************)
\* File.mutex: r = read-held by a parked ReadAt, w = held by a parked Read or
\* awaited by a parked Lock.  dirIter: the names the bound iterator has left.
FreeMu == [r |-> FALSE, w |-> FALSE]
NoIter == [bound |-> FALSE, rest |-> << >>]
NoFile == [used |-> FALSE, closed |-> FALSE, fd |-> << >>, dot |-> FALSE,
           flag |-> 0, rOff |-> 0, wOff |-> 0, mu |-> FreeMu, dirIter |-> NoIter]

\* a newFile whose truncation gives up the buffer of the cell as well
newFileReset(S, fd, flag) ==
    [err  |-> "nil",
     file |-> [used |-> TRUE, closed |-> FALSE, fd |-> fd.path, dot |-> fd.dot,
               flag |-> flag, rOff |-> 0, wOff |-> 0, mu |-> FreeMu, dirIter |-> NoIter],
     S    |-> IF HasFlag(flag, O_TRUNC)
              THEN [S EXCEPT !.attrs[fd.path] = SetSize(S.attrs[fd.path], fd.dot, 0),
                             !.data[fd.path] = << >>]
              ELSE S]

\* a newFile that leaves the size as it is
newFileKeep(S, fd, flag) ==
    [err  |-> "nil",
     file |-> [used |-> TRUE, closed |-> FALSE, fd |-> fd.path, dot |-> fd.dot,
               flag |-> flag, rOff |-> 0, wOff |-> 0, mu |-> FreeMu, dirIter |-> NoIter],
     S    |-> S]

\* newFile: O_TRUNC sets the size of a regular file to 0; the buffer fd.data is
\* left as it is (bytes.Buffer.Reset works on the Buffer's own slice header).
newFile(S, fd, flag) ==
    [err  |-> "nil",
     file |-> [used |-> TRUE, closed |-> FALSE, fd |-> fd.path, dot |-> fd.dot,
               flag |-> flag, rOff |-> 0, wOff |-> 0, mu |-> FreeMu, dirIter |-> NoIter],
     S    |-> IF HasFlag(flag, O_TRUNC)
              THEN [S EXCEPT !.attrs[fd.path] = SetSize(S.attrs[fd.path], fd.dot, 0)]
              ELSE S]

OpenErr(err, S) == [err |-> err, file |-> NoFile, S |-> S]

\* the calls "fd, err := newfd(...); if err != nil {...}; return newFile(fd, flag)"
\* of create, on the result f of newfd
createFile(f, flag) ==
    IF f.err # "nil" THEN OpenErr(f.err, f.S) ELSE newFile(f.S, f.fd, flag)

\* a create that expects the directory of the file to be there
createInPlace(S, mfs, p, flag, mode, t) ==
    IF mode THEN
        Let(mkdirAll(S, mfs, p, mode, t), LAMBDA r :
            IF r.err # "nil" THEN OpenErr(r.err, r.S)
            ELSE createFile(newfd(r.S, r.dir, ".", flag, mode, t), flag))
    ELSE IF CleanPath(p).err # "nil" THEN OpenErr(CleanPath(p).err, S)
    ELSE IF Len(SplitPath(p)) = 1 THEN
        createFile(newfd(S, mfs, p[1], flag, mode, t), flag)
    ELSE
        Let(stat(S, mfs, Dir(p)), LAMBDA s :
            IF s.err # "nil" THEN OpenErr(s.err, S)
            ELSE IF s.kind # "dir" THEN OpenErr("ErrNotDir", S)
            ELSE createFile(newfd(S, s.path, Base(p), flag, mode, t), flag))

create(S, mfs, p, flag, mode, t) ==
    IF mode THEN
        Let(mkdirAll(S, mfs, p, mode, t), LAMBDA r :
            IF r.err # "nil" THEN OpenErr(r.err, r.S)
            ELSE createFile(newfd(r.S, r.dir, ".", flag, mode, t), flag))
    ELSE IF CleanPath(p).err # "nil" THEN OpenErr(CleanPath(p).err, S)
    ELSE IF Len(SplitPath(p)) = 1 THEN
        createFile(newfd(S, mfs, p[1], flag, mode, t), flag)
    ELSE
        Let(mkdirAll(S, mfs, Dir(p), mode, t), LAMBDA r :
            IF r.err # "nil" THEN OpenErr(r.err, r.S)
            ELSE createFile(newfd(r.S, r.dir, Base(p), flag, mode, t), flag))

\* an open that goes on to create whatever the flags are
openAlwaysCreate(S, m, p, flag, mode, t) ==
    IF CleanPath(p).err # "nil" THEN OpenErr(CleanPath(p).err, S)
    ELSE IF stat(S, m, p).err = "ErrNotExist" THEN create(S, m, p, flag, mode, t)
    ELSE IF stat(S, m, p).err # "nil" THEN OpenErr(stat(S, m, p).err, S)
    ELSE newFile(S, [path |-> stat(S, m, p).path, dot |-> IsDir(stat(S, m, p))], flag)

\* MemFS.open.  stat never returns a nil entry without an error, so the code
\* after the type switch is not reached.
open(S, m, p, flag, mode, t) ==
    IF CleanPath(p).err # "nil" THEN OpenErr(CleanPath(p).err, S)
    ELSE
        Let(stat(S, m, p), LAMBDA s :
            IF s.err # "nil" THEN
                IF s.err = "ErrNotExist" /\ HasFlag(flag, O_CREATE)
                THEN create(S, m, p, flag, mode, t)
                ELSE OpenErr(s.err, S)
            ELSE IF s.kind = "fd" THEN
                IF ~IsDir(s) THEN newFile(S, [path |-> s.path, dot |-> s.dot], flag)
                ELSE newFile(S, [path |-> s.path, dot |-> s.dot], O_RDONLY)
            ELSE
                Let(newfd(S, s.path, ".", O_RDONLY, TRUE, t), LAMBDA f :
                    IF f.err # "nil" THEN OpenErr(f.err, S) ELSE newFile(S, f.fd, O_RDONLY)))

(***************************************************************************)
(* File: Stat and the access checks.                                       *)
(***************************************************************************)
\* a Stat that does not look at the closed flag
FileStatUnchecked(S, f) ==
    [err |-> "nil", isDir |-> f.dot, size |-> S.attrs[f.fd].size, mtime |-> S.attrs[f.fd].mtime]

\* File.Stat: the cell's entry, or the directory's own entry for a "." cell
FileStat(S, f) ==
    IF f.closed THEN [err |-> "ErrClosed", isDir |-> FALSE, size |-> 0, mtime |-> 0]
    ELSE [err |-> "nil", isDir |-> f.dot, size |-> S.attrs[f.fd].size,
          mtime |-> S.attrs[f.fd].mtime]

\* a check that lets the handle of a directory through
checkRegularFileAny(S, f) == FileStat(S, f).err

checkRegularFile(S, f) ==
    Let(FileStat(S, f), LAMBDA fi :
        IF fi.err # "nil" THEN fi.err
        ELSE IF fi.isDir THEN "ErrIsDir"
        ELSE "nil")

checkRead(S, f) ==
    IF checkRegularFile(S, f) # "nil" THEN checkRegularFile(S, f)
    ELSE IF f.flag = O_WRONLY THEN "ErrWriteOnly"
    ELSE "nil"

checkWrite(S, f) ==
    IF checkRegularFile(S, f) # "nil" THEN checkRegularFile(S, f)
    ELSE IF f.flag = O_RDONLY THEN "ErrReadOnly"
    ELSE "nil"

(***************************************************************************)
(* The cell: fd.bytes, File.grow.                                          *)
(***************************************************************************)
\* the slice fd.bytes returns
bytes(S, p) ==
    IF S.attrs[p].size > 0 THEN SubSeq(S.data[p], 1, S.attrs[p].size) ELSE S.data[p]

\* fd.bytes takes the read lock on entry and takes it again in its deferred
\* call: two more read holders, none released.
bytesRLocks == 2

\* sync.RWMutex of a cell: RLock waits while a writer waits, Lock waits while
\* there is a read holder or another writer waits.
CanRLock(m) == ~m.wp
CanLock(m) == m.r = 0 /\ ~m.wp

\* sync.RWMutex of a File
CanRLockFile(f) == ~f.mu.w
CanLockFile(f) == ~f.mu.w /\ ~f.mu.r

\* int(growthFactor * float32(currentCap + n))
grownCap(currentCap, n) == (growthNum * (currentCap + n)) \div growthDen

\* a grow that allocates the new buffer and copies nothing into it
growFresh(d, n) ==
    [err |-> "nil", data |-> [i \in 1..grownCap(Len(d), n) |-> 0]]

\* File.grow on a buffer d with len(d) = cap(d)
grow(d, n) ==
    IF Len(d) + n >= Len(d) THEN
        Let(grownCap(Len(d), n), LAMBDA c :
            IF c > MaxContentLen - c - n THEN [err |-> "ErrTooLarge", data |-> d]
            ELSE [err |-> "nil",
                  data |-> [i \in 1..c |-> IF i <= Len(d) THEN d[i] ELSE 0]])
    ELSE [err |-> "nil", data |-> d]

\* copy(dst[off:], src) into dst
copyAt(dst, off, src) ==
    [i \in 1..Len(dst) |->
        IF i > off /\ i - off <= Len(src) THEN src[i - off] ELSE dst[i]]

(***************************************************************************)
(* File: Read, ReadAt, Write, Seek, Close as functions of the state.       *)
(* Each returns the error, the count, the bytes, the File afterwards, the  *)
(* tree afterwards and the mutex of the cell afterwards.                   *)
(***************************************************************************)
Res(err, n, out, f, S, m) ==
    [err |-> err, n |-> n, out |-> out, file |-> f, S |-> S, fdmu |-> m]

\* a Read that leaves the read cursor where it was
FileReadInPlace(S, f, m, blen) ==
    IF checkRead(S, f) # "nil" THEN Res(checkRead(S, f), 0, << >>, f, S, m)
    ELSE IF blen = 0 THEN Res("nil", 0, << >>, f, S, m)
    ELSE IF ~CanLockFile(f) THEN Res("blocked", 0, << >>, [f EXCEPT !.mu.w = TRUE], S, m)
    ELSE IF f.rOff >= S.attrs[f.fd].size THEN Res("EOF", 0, << >>, f, S, m)
    ELSE IF ~CanRLock(m) THEN Res("blocked", 0, << >>, [f EXCEPT !.mu.w = TRUE], S, m)
    ELSE Res("nil", Min(blen, Len(bytes(S, f.fd)) - f.rOff),
             SubSeq(bytes(S, f.fd), f.rOff + 1, f.rOff + Min(blen, Len(bytes(S, f.fd)) - f.rOff)),
             f, S, [m EXCEPT !.r = m.r + bytesRLocks])

FileRead(S, f, m, blen) ==
    IF checkRead(S, f) # "nil" THEN Res(checkRead(S, f), 0, << >>, f, S, m)
    ELSE IF blen = 0 THEN Res("nil", 0, << >>, f, S, m)
    ELSE IF ~CanLockFile(f) THEN Res("blocked", 0, << >>, [f EXCEPT !.mu.w = TRUE], S, m)
    ELSE IF f.rOff >= S.attrs[f.fd].size THEN Res("EOF", 0, << >>, f, S, m)
    ELSE IF ~CanRLock(m) THEN Res("blocked", 0, << >>, [f EXCEPT !.mu.w = TRUE], S, m)
    ELSE
        Let(bytes(S, f.fd), LAMBDA b :
        Let(Min(blen, Len(b) - f.rOff), LAMBDA n :
            Res("nil", n, SubSeq(b, f.rOff + 1, f.rOff + n),
                [f EXCEPT !.rOff = f.rOff + n], S, [m EXCEPT !.r = m.r + bytesRLocks])))

FileReadAt(S, f, m, blen, off) ==
    IF checkRead(S, f) # "nil" THEN Res(checkRead(S, f), 0, << >>, f, S, m)
    ELSE IF blen = 0 THEN Res("nil", 0, << >>, f, S, m)
    ELSE IF ~CanRLockFile(f) THEN Res("blocked", 0, << >>, f, S, m)
    ELSE IF ~CanRLock(m) THEN Res("blocked", 0, << >>, [f EXCEPT !.mu.r = TRUE], S, m)
    ELSE
        Let(bytes(S, f.fd), LAMBDA b :
        Let(Min(blen, Len(b) - off), LAMBDA n :
        Let([m EXCEPT !.r = m.r + bytesRLocks], LAMBDA m1 :
            IF off < 0 \/ off > Len(b) THEN Res("panic", 0, << >>, f, S, m1)
            ELSE IF n < blen THEN Res("EOF", n, SubSeq(b, off + 1, off + n), f, S, m1)
            ELSE Res("nil", n, SubSeq(b, off + 1, off + n), f, S, m1))))

FileWrite(S, f, m, p, t) ==
    IF checkWrite(S, f) # "nil" THEN Res(checkWrite(S, f), 0, << >>, f, S, m)
    ELSE IF ~CanLock(m) THEN Res("blocked", 0, << >>, f, S, [m EXCEPT !.wp = TRUE])
    ELSE
        Let(grow(S.data[f.fd], Len(p)), LAMBDA g :
            IF g.err # "nil" THEN Res(g.err, 0, << >>, f, S, m)
            ELSE IF f.wOff > Len(g.data)
                THEN Res("panic", 0, << >>, f, [S EXCEPT !.data[f.fd] = g.data], m)
            ELSE
                Let(Min(Len(p), Len(g.data) - f.wOff), LAMBDA n :
                Let([f EXCEPT !.wOff = f.wOff + n], LAMBDA f1 :
                Let(SetModTime(S.attrs[f.fd], t), LAMBDA mt :
                Let([S EXCEPT !.data[f.fd] = copyAt(g.data, f.wOff, SubSeq(p, 1, n))], LAMBDA S1 :
                    IF mt.err # "nil" THEN Res(mt.err, n, << >>, f1, S1, m)
                    ELSE Res("nil", n, << >>, f1,
                             [S1 EXCEPT !.attrs[f.fd] = SetSize(mt.attrs, f.dot, f1.wOff)], m))))))

\* a Seek that takes the end of the file to be where the read cursor is
FileSeekFromCursor(S, f, off, whence) ==
    IF checkRead(S, f) # "nil" THEN Res(checkRead(S, f), 0, << >>, f, S, 0)
    ELSE IF ~CanLockFile(f) THEN Res("blocked", 0, << >>, [f EXCEPT !.mu.w = TRUE], S, 0)
    ELSE IF whence \notin {SeekStart, SeekCurrent, SeekEnd} THEN Res("ErrWhence", 0, << >>, f, S, 0)
    ELSE IF (IF whence = SeekStart THEN off ELSE f.rOff + off) < 0
        THEN Res("ErrNegative", 0, << >>, f, S, 0)
    ELSE Res("nil", IF whence = SeekStart THEN off ELSE f.rOff + off, << >>,
             [f EXCEPT !.rOff = IF whence = SeekStart THEN off ELSE f.rOff + off], S, 0)

\* a Seek that keeps one offset for reading and writing
FileSeekBoth(S, f, off, whence) ==
    IF checkRead(S, f) # "nil" THEN Res(checkRead(S, f), 0, << >>, f, S, 0)
    ELSE IF ~CanLockFile(f) THEN Res("blocked", 0, << >>, [f EXCEPT !.mu.w = TRUE], S, 0)
    ELSE IF whence \notin {SeekStart, SeekCurrent, SeekEnd} THEN Res("ErrWhence", 0, << >>, f, S, 0)
    ELSE
        Let(IF whence = SeekStart THEN off
            ELSE IF whence = SeekCurrent THEN f.rOff + off
            ELSE S.attrs[f.fd].size + off,
            LAMBDA abs :
                IF abs < 0 THEN Res("ErrNegative", 0, << >>, f, S, 0)
                ELSE Res("nil", abs, << >>, [f EXCEPT !.rOff = abs, !.wOff = abs], S, 0))

FileSeek(S, f, off, whence) ==
    IF checkRead(S, f) # "nil" THEN Res(checkRead(S, f), 0, << >>, f, S, 0)
    ELSE IF ~CanLockFile(f) THEN Res("blocked", 0, << >>, [f EXCEPT !.mu.w = TRUE], S, 0)
    ELSE IF whence \notin {SeekStart, SeekCurrent, SeekEnd} THEN Res("ErrWhence", 0, << >>, f, S, 0)
    ELSE
        Let(IF whence = SeekStart THEN off
            ELSE IF whence = SeekCurrent THEN f.rOff + off
            ELSE S.attrs[f.fd].size + off,
            LAMBDA abs :
                IF abs < 0 THEN Res("ErrNegative", 0, << >>, f, S, 0)
                ELSE Res("nil", abs, << >>, [f EXCEPT !.rOff = abs], S, 0))

\* a Close that succeeds every time
FileCloseIdempotent(f) ==
    IF ~CanLockFile(f) THEN [err |-> "blocked", file |-> [f EXCEPT !.mu.w = TRUE]]
    ELSE [err |-> "nil", file |-> [f EXCEPT !.closed = TRUE]]

FileClose(f) ==
    IF ~CanLockFile(f) THEN [err |-> "blocked", file |-> [f EXCEPT !.mu.w = TRUE]]
    ELSE IF ~f.closed THEN [err |-> "nil", file |-> [f EXCEPT !.closed = TRUE]]
    ELSE [err |-> "ErrClosed", file |-> f]

\* File.ReadFrom.  io.Copy(f, r) hands a source that has WriteTo (bytes.Reader,
\* bytes.Buffer, strings.Reader) to r.WriteTo(f), which writes what is left in
\* one Write and writes nothing when nothing is left; for any other source it
\* calls f.ReadFrom(r) again, since File has ReadFrom, and so without end.
FileReadFrom(S, f, m, src, t) ==
    IF checkWrite(S, f) # "nil" THEN Res(checkWrite(S, f), 0, << >>, f, S, m)
    ELSE IF src.kind = "nil" THEN Res("ErrNilReader", 0, << >>, f, S, m)
    ELSE IF src.kind = "WriterTo" THEN
        IF Len(src.bytes) = 0 THEN Res("nil", 0, << >>, f, S, m)
        ELSE FileWrite(S, f, m, src.bytes, t)
    ELSE Res("fatal", 0, << >>, f, S, m)

(***************************************************************************)
(* Directory iteration: dirIterator.Next, dirIterator.NextN, File.readDir, *)
(* sub.  The trie's iterator walks the names a directory held when the     *)
(* iterator was made, "." among them, in an order the trie decides.        *)
(***************************************************************************)
Children(S, d) ==
    IF Len(d) >= MaxDepth THEN {} ELSE {n \in Names : S.entries[Append(d, n)] # "none"}

Orders(K) == {o \in [1..Cardinality(K) -> K] : \A i, j \in 1..Cardinality(K) : o[i] = o[j] => i = j}

\* the orders in which mfs.entries.Iterate() may walk directory d
IterOrders(S, d) == Orders(Children(S, d) \cup {"."})

\* a Next that hands out the "." entry like any other
iterNextWithDot(S, d, rest) ==
    IF rest = << >> THEN [err |-> "EOF", name |-> "", rest |-> rest]
    ELSE IF entry(S, d, Head(rest)).err # "nil"
        THEN [err |-> entry(S, d, Head(rest)).err, name |-> "", rest |-> Tail(rest)]
    ELSE [err |-> "nil", name |-> Head(rest), rest |-> Tail(rest)]

RECURSIVE iterNext(_, _, _)
iterNext(S, d, rest) ==
    IF rest = << >> THEN [err |-> "EOF", name |-> "", rest |-> rest]
    ELSE IF Head(rest) = "." THEN iterNext(S, d, Tail(rest))
    ELSE IF entry(S, d, Head(rest)).err # "nil"
        THEN [err |-> entry(S, d, Head(rest)).err, name |-> "", rest |-> Tail(rest)]
    ELSE [err |-> "nil", name |-> Head(rest), rest |-> Tail(rest)]

\* the loops of NextN: j counts the calls left when n > 0
RECURSIVE nextNLoop(_, _, _, _, _)
nextNLoop(S, d, rest, j, acc) ==
    IF j = 0 THEN [err |-> "nil", list |-> acc, rest |-> rest]
    ELSE Let(iterNext(S, d, rest), LAMBDA e :
             IF e.err # "nil" THEN [err |-> e.err, list |-> acc, rest |-> e.rest]
             ELSE nextNLoop(S, d, e.rest, j - 1, Append(acc, e.name)))

RECURSIVE nextNAll(_, _, _, _)
nextNAll(S, d, rest, acc) ==
    IF rest = << >> THEN [err |-> "nil", list |-> acc, rest |-> rest]
    ELSE Let(iterNext(S, d, rest), LAMBDA e :
             IF e.err # "nil" THEN [err |-> e.err, list |-> acc, rest |-> e.rest]
             ELSE nextNAll(S, d, e.rest, Append(acc, e.name)))

NextN(S, d, rest, n) ==
    IF n > 0 THEN nextNLoop(S, d, rest, n, << >>) ELSE nextNAll(S, d, rest, << >>)

\* File.readDir; order is the walk of a newly bound iterator
FileReadDir(S, f, n, order) ==
    IF FileStat(S, f).err # "nil" THEN [err |-> FileStat(S, f).err, list |-> << >>, file |-> f]
    ELSE IF ~CanLockFile(f) THEN [err |-> "blocked", list |-> << >>, file |-> [f EXCEPT !.mu.w = TRUE]]
    ELSE IF ~FileStat(S, f).isDir THEN [err |-> "ErrNotDir", list |-> << >>, file |-> f]
    ELSE
        Let(NextN(S, f.fd, IF f.dirIter.bound THEN f.dirIter.rest ELSE order, n), LAMBDA r :
            [err |-> r.err, list |-> r.list,
             file |-> [f EXCEPT !.dirIter = [bound |-> TRUE, rest |-> r.rest]]])

\* a sub that hands back the filesystem it was called on for every directory
subSelf(S, m, p) ==
    IF CleanPath(p).err # "nil" THEN [err |-> CleanPath(p).err, dir |-> m]
    ELSE IF p = <<".">> THEN [err |-> "nil", dir |-> m]
    ELSE Let(find(S, m, p), LAMBDA e :
             IF e.err # "nil" THEN [err |-> e.err, dir |-> m]
             ELSE IF e.kind # "dir" THEN [err |-> "panic", dir |-> m]
             ELSE [err |-> "nil", dir |-> m])

sub(S, m, p) ==
    IF CleanPath(p).err # "nil" THEN [err |-> CleanPath(p).err, dir |-> m]
    ELSE IF p = <<".">> THEN [err |-> "nil", dir |-> m]
    ELSE Let(find(S, m, p), LAMBDA e :
             IF e.err # "nil" THEN [err |-> e.err, dir |-> m]
             ELSE IF e.kind # "dir" THEN [err |-> "panic", dir |-> m]
             ELSE [err |-> "nil", dir |-> e.path])

\* MemFS.ReadDir
readDir(S, m, p, order) ==
    Let(sub(S, m, p), LAMBDA d :
        IF d.err # "nil" THEN [err |-> d.err, list |-> << >>]
        ELSE Let(NextN(S, d.dir, order, 0 - 1), LAMBDA r :
                 IF r.err # "nil" THEN [err |-> r.err, list |-> << >>]
                 ELSE [err |-> "nil", list |-> r.list]))

(***************************************************************************)
(* MemFS.ReadFile and MemFS.WriteFile as functions of the state.           *)
(***************************************************************************)
ReadAllBuf == 512       \* the buffer io.ReadAll starts with
CreateFlags == O_RDWR + O_CREATE + O_TRUNC

\* io.ReadAll(f): Read until EOF
RECURSIVE readAll(_, _, _, _)
readAll(S, f, m, acc) ==
    Let(FileRead(S, f, m, ReadAllBuf), LAMBDA r :
        IF r.err = "EOF" THEN [err |-> "nil", out |-> acc, fdmu |-> r.fdmu]
        ELSE IF r.err # "nil" THEN [err |-> r.err, out |-> << >>, fdmu |-> r.fdmu]
        ELSE readAll(S, r.file, r.fdmu, acc \o r.out))

readFile(S, m, p, mus, t) ==
    Let(open(S, m, p, O_RDONLY, FALSE, t), LAMBDA o :
        IF o.err # "nil" THEN [err |-> o.err, out |-> << >>, fd |-> << >>, fdmu |-> mus[<< >>]]
        ELSE Let(readAll(S, o.file, mus[o.file.fd], << >>), LAMBDA r :
                 [err |-> r.err, out |-> r.out, fd |-> o.file.fd, fdmu |-> r.fdmu]))

writeFile(S, m, p, d, mode, mus, t) ==
    Let(open(S, m, p, CreateFlags, mode, t), LAMBDA o :
        IF o.err # "nil"
        THEN [err |-> o.err, file |-> o.file, S |-> o.S, fdmu |-> mus[<< >>], n |-> 0,
              trunc |-> FALSE]
        ELSE Let(FileWrite(o.S, o.file, mus[o.file.fd], d, t), LAMBDA w :
                 [err |-> w.err, file |-> w.file, S |-> w.S,
                  fdmu |-> w.fdmu, n |-> w.n, trunc |-> ~o.file.dot]))

(***************************************************************************)
(* The state after memfs.New(): a root directory and nothing else.         *)
(***************************************************************************)
FreeFdMu == [r |-> 0, wp |-> FALSE]

NoRet == [op |-> "new", h |-> 0, name |-> << >>, flag |-> 0, buf |-> << >>,
          len |-> 0, off |-> 0, err |-> "nil", n |-> 0, out |-> << >>,
          isDir |-> FALSE, size |-> 0, list |-> << >>]

Call(op) == [NoRet EXCEPT !.op = op]

Init ==
    /\ entries = [p \in Paths |-> IF p = Root THEN "dir" ELSE "none"]
    /\ attrs = [p \in Paths |-> IF p = Root THEN NewAttributes(1) ELSE NoAttrs]
    /\ data = [p \in Paths |-> << >>]
    /\ fdmu = [p \in Paths |-> FreeFdMu]
    /\ files = [h \in Handles |-> NoFile]
    /\ thr = [t \in Threads |-> "idle"]
    /\ now = 1
    /\ hi = [p \in Paths |-> 0]
    /\ ret = NoRet

(***************************************************************************)
(* Threads and handles.                                                    *)
(***************************************************************************)
Idle == \E t \in Threads : thr[t] = "idle"
Caller == CHOOSE t \in Threads : thr[t] = "idle" /\ \A u \in Threads : u < t => thr[u] # "idle"
\* the calling thread after a call that returned err
After(err) == IF err = "blocked" THEN [thr EXCEPT ![Caller] = "blocked"] ELSE thr

FreeHandle == \E h \in Handles : ~files[h].used
NewHandle == CHOOSE h \in Handles : ~files[h].used /\ \A g \in Handles : g < h => files[g].used
Used(h) == files[h].used

SetTree(S) ==
    /\ entries' = S.entries
    /\ attrs' = S.attrs
    /\ data' = S.data

\* the history of a cell's highest written offset after an open
HiAfterOpen(o) ==
    IF o.err = "nil" /\ ~o.file.dot /\ HasFlag(o.file.flag, O_TRUNC)
    THEN [hi EXCEPT ![o.file.fd] = 0] ELSE hi

\* and after a write through File f that returned w
HiAfterWrite(h0, f, w) ==
    IF w.err \in {"nil", "ErrMtimeMismatch"} /\ w.n > 0
    THEN [h0 EXCEPT ![f.fd] = Max(h0[f.fd], f.wOff + w.n)] ELSE h0

\* and after WriteFile returned r: the open truncates a regular file, the
\* write starts at offset 0
HiAfterWriteFile(r) ==
    IF ~r.trunc THEN hi
    ELSE [hi EXCEPT ![r.file.fd] = IF r.err \in {"nil", "ErrMtimeMismatch"} THEN r.n ELSE 0]

(***************************************************************************)
(* The facade: one action per method of MemFS, called on the root.         *)
(***************************************************************************)
\* MemFS.OpenFile(name, flag, mode); MemFS.Open and MemFS.Create are the
\* two calls of it below
DoOpen(op, p, flag, mode) ==
    /\ Idle
    /\ FreeHandle
    /\ Let(open(Tree, Root, p, flag, mode, now), LAMBDA o :
        /\ SetTree(o.S)
        /\ files' = IF o.err = "nil" THEN [files EXCEPT ![NewHandle] = o.file] ELSE files
        /\ hi' = HiAfterOpen(o)
        /\ ret' = [Call(op) EXCEPT !.name = p, !.flag = flag, !.isDir = mode, !.err = o.err,
                                   !.h = IF o.err = "nil" THEN NewHandle ELSE 0])
    /\ UNCHANGED <<fdmu, thr, now>>

OpenFile(p, flag, mode) == DoOpen("openFile", p, flag, mode)
Open(p) == DoOpen("open", p, O_RDONLY, FALSE)
Create(p) == DoOpen("create", p, CreateFlags, FALSE)

Mkdir(p, mode) ==
    /\ Idle
    /\ Let(IF CleanPath(p).err # "nil"
           THEN [err |-> CleanPath(p).err, dir |-> Root, S |-> Tree]
           ELSE IF stat(Tree, Root, p).err \notin {"nil", "ErrNotExist"}
           THEN [err |-> stat(Tree, Root, p).err, dir |-> Root, S |-> Tree]
           ELSE mkdir(Tree, Root, p, mode, now),
           LAMBDA r :
               /\ SetTree(r.S)
               /\ ret' = [Call("mkdir") EXCEPT !.name = p, !.err = r.err])
    /\ UNCHANGED <<fdmu, files, thr, now, hi>>

MkdirAll(p, mode) ==
    /\ Idle
    /\ Let(mkdirAll(Tree, Root, p, mode, now), LAMBDA r :
        /\ SetTree(r.S)
        /\ ret' = [Call("mkdirAll") EXCEPT !.name = p, !.err = r.err])
    /\ UNCHANGED <<fdmu, files, thr, now, hi>>

\* MemFS.Stat
Stat(p) ==
    /\ Idle
    /\ Let(stat(Tree, Root, p), LAMBDA e :
        ret' = [Call("stat") EXCEPT !.name = p, !.err = e.err,
                   !.isDir = (e.err = "nil" /\ IsDir(e)),
                   !.size = IF e.err = "nil" /\ ~e.dot THEN attrs[e.path].size ELSE 0])
    /\ UNCHANGED <<entries, attrs, data, fdmu, files, thr, now, hi>>

ReadDir(p, order) ==
    /\ Idle
    /\ sub(Tree, Root, p).err = "nil" => order \in IterOrders(Tree, sub(Tree, Root, p).dir)
    /\ sub(Tree, Root, p).err # "nil" => order = << >>
    /\ Let(readDir(Tree, Root, p, order), LAMBDA r :
        ret' = [Call("readDir") EXCEPT !.name = p, !.err = r.err, !.list = r.list])
    /\ UNCHANGED <<entries, attrs, data, fdmu, files, thr, now, hi>>

ReadFile(p) ==
    /\ Idle
    /\ Let(readFile(Tree, Root, p, fdmu, now), LAMBDA r :
        /\ r.fdmu.r <= MaxRLock
        /\ fdmu' = [fdmu EXCEPT ![r.fd] = r.fdmu]
        /\ thr' = After(r.err)
        /\ ret' = [Call("readFile") EXCEPT !.name = p, !.err = r.err, !.out = r.out])
    /\ UNCHANGED <<entries, attrs, data, files, now, hi>>

WriteFile(p, d, mode) ==
    /\ Idle
    /\ Let(writeFile(Tree, Root, p, d, mode, fdmu, now), LAMBDA r :
        /\ Len(r.S.data[r.file.fd]) <= MaxCap
        /\ SetTree(r.S)
        /\ fdmu' = [fdmu EXCEPT ![r.file.fd] = r.fdmu]
        /\ hi' = HiAfterWriteFile(r)
        /\ thr' = After(r.err)
        /\ ret' = [Call("writeFile") EXCEPT !.name = p, !.buf = d, !.isDir = mode,
                                            !.err = r.err, !.n = r.n])
    /\ UNCHANGED <<files, now>>

\* a remove that does remove: the entry at p and everything below it
RemoveTree(op, p) ==
    /\ Idle
    /\ entries' = [q \in Paths |-> IF p # Root /\ IsPrefix(p, q) THEN "none" ELSE entries[q]]
    /\ ret' = [Call(op) EXCEPT !.name = p, !.err = "ErrNotImplemented"]
    /\ UNCHANGED <<attrs, data, fdmu, files, thr, now, hi>>

NotImplemented(op, p) ==
    /\ Idle
    /\ ret' = [Call(op) EXCEPT !.name = p, !.err = "ErrNotImplemented"]
    /\ UNCHANGED <<entries, attrs, data, fdmu, files, thr, now, hi>>

Remove(p) == NotImplemented("remove", p)
RemoveAll(p) == NotImplemented("removeAll", p)
Rename(p, q) == NotImplemented("rename", p)

(***************************************************************************)
(* The handles: one action per method of File.                             *)
(***************************************************************************)
Read(h, blen) ==
    /\ Idle
    /\ Used(h)
    /\ Let(FileRead(Tree, files[h], fdmu[files[h].fd], blen), LAMBDA r :
        /\ r.fdmu.r <= MaxRLock
        /\ files' = [files EXCEPT ![h] = r.file]
        /\ fdmu' = [fdmu EXCEPT ![files[h].fd] = r.fdmu]
        /\ thr' = After(r.err)
        /\ ret' = [Call("read") EXCEPT !.h = h, !.len = blen, !.err = r.err, !.n = r.n,
                                       !.out = r.out])
    /\ UNCHANGED <<entries, attrs, data, now, hi>>

ReadAt(h, blen, off) ==
    /\ Idle
    /\ Used(h)
    /\ Let(FileReadAt(Tree, files[h], fdmu[files[h].fd], blen, off), LAMBDA r :
        /\ r.fdmu.r <= MaxRLock
        /\ files' = [files EXCEPT ![h] = r.file]
        /\ fdmu' = [fdmu EXCEPT ![files[h].fd] = r.fdmu]
        /\ thr' = After(r.err)
        /\ ret' = [Call("readAt") EXCEPT !.h = h, !.len = blen, !.off = off, !.err = r.err,
                                         !.n = r.n, !.out = r.out])
    /\ UNCHANGED <<entries, attrs, data, now, hi>>

Write(h, b) ==
    /\ Idle
    /\ Used(h)
    /\ Let(FileWrite(Tree, files[h], fdmu[files[h].fd], b, now), LAMBDA r :
        /\ Len(r.S.data[files[h].fd]) <= MaxCap
        /\ SetTree(r.S)
        /\ files' = [files EXCEPT ![h] = r.file]
        /\ fdmu' = [fdmu EXCEPT ![files[h].fd] = r.fdmu]
        /\ hi' = HiAfterWrite(hi, files[h], r)
        /\ thr' = After(r.err)
        /\ ret' = [Call("write") EXCEPT !.h = h, !.buf = b, !.err = r.err, !.n = r.n])
    /\ UNCHANGED now

ReadFrom(h, src) ==
    /\ Idle
    /\ Used(h)
    /\ Let(FileReadFrom(Tree, files[h], fdmu[files[h].fd], src, now), LAMBDA r :
        /\ Len(r.S.data[files[h].fd]) <= MaxCap
        /\ SetTree(r.S)
        /\ files' = [files EXCEPT ![h] = r.file]
        /\ fdmu' = [fdmu EXCEPT ![files[h].fd] = r.fdmu]
        /\ hi' = HiAfterWrite(hi, files[h], r)
        /\ thr' = After(r.err)
        /\ ret' = [Call("readFrom") EXCEPT !.h = h, !.buf = src.bytes, !.err = r.err,
                                           !.n = r.n])
    /\ UNCHANGED now

Seek(h, off, whence) ==
    /\ Idle
    /\ Used(h)
    /\ Let(FileSeek(Tree, files[h], off, whence), LAMBDA r :
        /\ r.file.rOff <= MaxOff
        /\ files' = [files EXCEPT ![h] = r.file]
        /\ thr' = After(r.err)
        /\ ret' = [Call("seek") EXCEPT !.h = h, !.off = off, !.len = whence, !.err = r.err,
                                       !.n = r.n])
    /\ UNCHANGED <<entries, attrs, data, fdmu, now, hi>>

Close(h) ==
    /\ Idle
    /\ Used(h)
    /\ Let(FileClose(files[h]), LAMBDA r :
        /\ files' = [files EXCEPT ![h] = r.file]
        /\ thr' = After(r.err)
        /\ ret' = [Call("close") EXCEPT !.h = h, !.err = r.err])
    /\ UNCHANGED <<entries, attrs, data, fdmu, now, hi>>

\* File.Stat
StatFile(h) ==
    /\ Idle
    /\ Used(h)
    /\ Let(FileStat(Tree, files[h]), LAMBDA r :
        ret' = [Call("statFile") EXCEPT !.h = h, !.err = r.err, !.isDir = r.isDir,
                                        !.size = r.size])
    /\ UNCHANGED <<entries, attrs, data, fdmu, files, thr, now, hi>>

\* File.ReadDir(n)
ReadDirFile(h, n, order) ==
    /\ Idle
    /\ Used(h)
    /\ order \in IterOrders(Tree, IF files[h].dot THEN files[h].fd ELSE Root)
    /\ Let(FileReadDir(Tree, files[h], n, order), LAMBDA r :
        /\ files' = [files EXCEPT ![h] = r.file]
        /\ thr' = After(r.err)
        /\ ret' = [Call("readDirFile") EXCEPT !.h = h, !.len = n, !.err = r.err,
                                              !.list = r.list])
    /\ UNCHANGED <<entries, attrs, data, fdmu, now, hi>>

(***************************************************************************)
(* The clock, and Entry.SetModTime called on the entry Stat returns.       *)
(***************************************************************************)
Tick ==
    /\ now < MaxTime
    /\ now' = now + 1
    /\ ret' = Call("tick")
    /\ UNCHANGED <<entries, attrs, data, fdmu, files, thr, hi>>

EntrySetModTime(p, t) ==
    /\ Idle
    /\ entries[p] # "none"
    /\ Let(SetModTime(attrs[p], t), LAMBDA r :
        /\ attrs' = [attrs EXCEPT ![p] = r.attrs]
        /\ ret' = [Call("setModTime") EXCEPT !.name = p, !.off = t, !.err = r.err])
    /\ UNCHANGED <<entries, data, fdmu, files, thr, now, hi>>


(***************************************************************************)
(* Specifications.  Each draws the arguments of the calls from small sets  *)
(* and keeps the buffers and the lock counts within its own bounds.        *)
(***************************************************************************)
FileA == <<"a">>
FileB == <<"b">>
FileAB == <<"a", "b">>
Dot == <<".">>
WriterTo(b) == [kind |-> "WriterTo", bytes |-> b]
Within(cap, rl) == \A p \in Paths : Len(data[p]) <= cap /\ fdmu[p].r <= rl
\* no more than k File objects have been handed out
Handed(k) == \A h \in Handles : files[h].used => h <= k
FewFiles == 2
OneFile == 1
\* the orders a new iterator of File h may take
HandleOrders(h) == IterOrders(Tree, IF files[h].dot THEN files[h].fd ELSE Root)
\* the methods of File that take the handle to work on
HandleOps == {"read", "readAt", "write", "readFrom", "seek", "readDirFile", "statFile"}

(***************************************************************************)
(* Spec: the life of a handle.  Handles on one regular file and on the     *)
(* root directory, every method of File, one byte per call.                *)
(***************************************************************************)
LifeCap == 1
LifeRLock == 2

Next ==
    \/ OpenFile(FileA, CreateFlags, FALSE) /\ Handed(FewFiles)'
    \/ Open(Dot) /\ Handed(FewFiles)'
    \/ \E h \in Handles : Read(h, 1) /\ Within(LifeCap, LifeRLock)'
    \/ \E h \in Handles : ReadAt(h, 1, 0) /\ Within(LifeCap, LifeRLock)'
    \/ \E h \in Handles : Write(h, <<1>>) /\ Within(LifeCap, LifeRLock)'
    \/ \E h \in Handles : ReadFrom(h, WriterTo(<<1>>)) /\ Within(LifeCap, LifeRLock)'
    \/ \E h \in Handles : Seek(h, 0, SeekStart)
    \/ \E h \in Handles : Close(h)
    \/ \E h \in Handles : StatFile(h)
    \/ \E h \in Handles : \E order \in HandleOrders(h) : ReadDirFile(h, 0 - 1, order)

Spec == Init /\ [][Next]_vars

\* C3: a close() that returns on a handle that is not closed returns no error
\* and leaves the handle closed; a close() that returns on a closed handle
\* returns the closed-handle error and changes nothing.  Calls are serialised
\* by File.mutex, so of any number of close() calls on one handle exactly the
\* first succeeds.
C3_CloseSucceedsOnce ==
    [][\A h \in Handles :
        (ret'.op = "close" /\ ret'.h = h /\ ret'.err # "blocked") =>
            IF ~files[h].closed
            THEN ret'.err = "nil" /\ files'[h].closed
            ELSE ret'.err = "ErrClosed" /\ files'[h] = files[h]]_vars

\* a second close() has been refused on a closed handle
C3_Witness ==
    /\ ret.op = "close"
    /\ ret.err = "ErrClosed"
    /\ files[ret.h].closed

\* C4: a closed handle stays closed, and read, readAt, write, readFrom, seek,
\* readDir and stat on it return the closed-handle error and leave the handle
\* (its cursors included), every cell's content and every size as they were.
C4_ClosedIsTerminal ==
    [][\A h \in Handles :
        files[h].closed =>
            /\ files'[h].closed
            /\ (ret'.h = h /\ ret'.op \in HandleOps) =>
                /\ ret'.err = "ErrClosed"
                /\ files'[h] = files[h]
                /\ UNCHANGED <<entries, attrs, data, fdmu>>]_vars

\* a write has been refused on a closed handle of a regular file
C4_Witness ==
    /\ ret.op \in {"write", "readFrom"}
    /\ ret.err = "ErrClosed"
    /\ files[ret.h].closed
    /\ ~files[ret.h].dot

(***************************************************************************)
(* SpecRW: readers and writers of one cell.  Handles on one regular file,  *)
(* opened with and without truncation, written one byte at a time.         *)
(***************************************************************************)
RWCap == 6
RWRLock == 2

NextRW ==
    \/ OpenFile(FileA, CreateFlags, FALSE) /\ Handed(FewFiles)'
    \/ OpenFile(FileA, O_RDWR, FALSE) /\ Handed(FewFiles)'
    \/ \E h \in Handles : Read(h, 1) /\ Within(RWCap, RWRLock)'
    \/ \E h \in Handles : ReadAt(h, 1, 0) /\ Within(RWCap, RWRLock)'
    \/ \E h \in Handles : Write(h, <<1>>) /\ Within(RWCap, RWRLock)'
    \/ \E h \in Handles : Close(h)

SpecRW == Init /\ [][NextRW]_vars

\* C2: every call returns: no call is left waiting for a lock that is never
\* released, and so a write that follows a completed read or readAt of the
\* same cell returns.
C2_EveryCallReturns == ret.err # "blocked"

\* C6: after a write that succeeded through a handle, the size of the cell
\* is the highest offset written to it since it was last truncated.
C6_SizeIsHighestOffset ==
    \A h \in Handles :
        (ret.op \in {"write", "readFrom"} /\ ret.h = h /\ ret.err = "nil") =>
            attrs[files[h].fd].size = hi[files[h].fd]

\* C18: fd.bytes releases the read lock it takes: whenever no call is under
\* way (every call has returned, none is waiting for a lock), no cell has a
\* read holder.
C18_ReadLockReleased ==
    (\A t \in Threads : thr[t] = "idle") => \A p \in Paths : fdmu[p].r = 0

\* C26: the buffer and the size of a cell change only under the write lock
\* of the cell: a step that changes either is taken by a caller that has
\* the lock, which it can have only when the cell has no read holder and no
\* other writer waits for it.
C26_ModifiedUnderWriteLock ==
    [][\A p \in Paths :
        (attrs'[p].size # attrs[p].size \/ data'[p] # data[p]) => CanLock(fdmu[p])]_vars

(***************************************************************************)
(* SpecFlags: every composition of the open flags.  One file, made by      *)
(* WriteFile, and one handle on it at a time, opened with an access mode   *)
(* composed with any of create, truncate and append.                       *)
(***************************************************************************)
FlagsCap == 3
FlagsRLock == 2
AccessModes == {O_RDONLY, O_WRONLY, O_RDWR}
OptionSets == SUBSET {O_CREATE, O_TRUNC, O_APPEND}
RECURSIVE Sum(_)
Sum(F) == IF F = {} THEN 0 ELSE LET x == CHOOSE y \in F : TRUE IN x + Sum(F \ {x})
OpenFlags == {a + Sum(F) : a \in AccessModes, F \in OptionSets}
\* flag & O_ACCMODE
AccMode(flag) == flag % 4
NoHandle == \A h \in Handles : ~Used(h)

NextFlags ==
    \/ WriteFile(FileA, <<1>>, FALSE) /\ NoHandle /\ Within(FlagsCap, FlagsRLock)'
    \/ \E flag \in OpenFlags : OpenFile(FileA, flag, FALSE) /\ NoHandle
    \/ \E h \in Handles : Read(h, 1) /\ Within(FlagsCap, FlagsRLock)'
    \/ \E h \in Handles : ReadAt(h, 1, 0) /\ Within(FlagsCap, FlagsRLock)'
    \/ \E h \in Handles : Seek(h, 0, SeekStart)
    \/ \E h \in Handles : Write(h, <<2>>) /\ Within(FlagsCap, FlagsRLock)'
    \/ \E h \in Handles : ReadFrom(h, WriterTo(<<2>>)) /\ Within(FlagsCap, FlagsRLock)'

SpecFlags == Init /\ [][NextFlags]_vars

\* C5: on a handle of a regular file whose flags have the read-only access
\* mode, write and readFrom are refused; on one whose flags have the
\* write-only access mode, read, readAt and seek are refused; whatever else
\* the flags hold.
C5_AccessModeEnforced ==
    \A h \in Handles :
        (ret.h = h /\ ~files[h].dot /\ ~files[h].closed) =>
            /\ (AccMode(files[h].flag) = O_RDONLY /\ ret.op \in {"write", "readFrom"})
                    => ret.err = "ErrReadOnly"
            /\ (AccMode(files[h].flag) = O_WRONLY /\ ret.op \in {"read", "readAt", "seek"})
                    => ret.err = "ErrWriteOnly"

(***************************************************************************)
(* SpecTime: the clock and the timestamps.  Entries are made while the     *)
(* clock runs, and a caller sets modification times on the entries that    *)
(* Stat hands out.                                                         *)
(***************************************************************************)
TimeCap == 1
Times == 0..MaxTime

NextTime ==
    \/ Tick
    \/ MkdirAll(FileA, FALSE)
    \/ WriteFile(FileB, <<1>>, FALSE) /\ Within(TimeCap, 0)'
    \/ WriteFile(FileAB, <<1>>, FALSE) /\ Within(TimeCap, 0)'
    \/ \E p \in Paths : \E t \in Times : EntrySetModTime(p, t)

SpecTime == Init /\ [][NextTime]_vars

\* C7: the modification time of an entry, once set, is not earlier than its
\* creation time.
C7_MtimeNotBeforeCtime ==
    \A p \in Paths :
        (entries[p] # "none" /\ attrs[p].mtime # 0) => attrs[p].mtime >= attrs[p].ctime

(***************************************************************************)
(* SpecTree: the facade on a small tree.  Files "b" and "a/b", directories *)
(* "a", "a/b" and "b", whichever call makes them first; files are read and *)
(* rewritten with longer, shorter and empty content.                       *)
(***************************************************************************)
TreeCap == 6
TreeRLock == 2
TreeFiles == {FileB, FileAB}
TreeBufs == {<< >>, <<1>>, <<1, 2>>}
TreeDirs == {FileA, FileAB, FileB}
\* the arguments of remove, removeAll and rename: the empty string, which is
\* no valid path, and paths that may or may not be there
TreeArgs == {Root, FileB, FileAB}
\* nothing is at path p
Missing(p) == p \in Paths \ {Root} /\ entries[p] = "none"

NextTree ==
    \/ \E p \in TreeFiles : \E d \in TreeBufs :
            WriteFile(p, d, FALSE) /\ Within(TreeCap, TreeRLock)'
    \/ \E p \in TreeFiles : ReadFile(p) /\ Within(TreeCap, TreeRLock)'
    \/ \E p \in TreeDirs : MkdirAll(p, FALSE)
    \/ \E p \in TreeFiles : Missing(p) /\ Open(p)
    \/ \E p \in TreeFiles : Missing(p) /\ OpenFile(p, O_RDWR, FALSE)
    \/ \E p \in TreeArgs : Remove(p)
    \/ \E p \in TreeArgs : RemoveAll(p)
    \/ \E p \in TreeArgs : Rename(p, FileA)

SpecTree == Init /\ [][NextTree]_vars

\* the proper prefixes of path p, and all its prefixes
Ancestors(p) == {SubSeq(p, 1, i) : i \in 1..(Len(p) - 1)}
Prefixes(p) == {SubSeq(p, 1, i) : i \in 1..Len(p)}

\* C1: writeFile(p, d) of a path p that is no directory, whose ancestors are
\* directories or missing, returns no error, and readFile(p) then returns d.
C1_RoundTrip ==
    (/\ ret.op = "writeFile"
     /\ ~ret.isDir
     /\ ret.name \in Paths \ {Root}
     /\ entries[ret.name] # "dir"
     /\ \A q \in Ancestors(ret.name) : entries[q] # "fd")
    => /\ ret.err = "nil"
       /\ readFile(Tree, Root, ret.name, fdmu, now).err = "nil"
       /\ readFile(Tree, Root, ret.name, fdmu, now).out = ret.buf

\* C8: remove, removeAll and rename return the not-implemented error for
\* every argument and change nothing: the tree, the cells and the handles
\* are as before, and readFile of every file returns what it returned before.
C8_NotImplementedChangesNothing ==
    [][ret'.op \in {"remove", "removeAll", "rename"} =>
        /\ ret'.err = "ErrNotImplemented"
        /\ UNCHANGED <<entries, attrs, data, fdmu, files>>
        /\ \A p \in Paths :
              entries[p] = "fd" =>
                  readFile(Tree', Root, p, fdmu', now') = readFile(Tree, Root, p, fdmu, now)]_vars

\* remove has been refused on a file that holds content, and the file reads back
C8_Witness ==
    /\ ret.op = "remove"
    /\ ret.err = "ErrNotImplemented"
    /\ entries[ret.name] = "fd"
    /\ readFile(Tree, Root, ret.name, fdmu, now).out # << >>

\* C9: mkdirAll(p) of a path of names whose prefixes are directories or
\* missing returns no error; afterwards every prefix of p stats as a
\* directory, and mkdirAll(p) once more returns no error and leaves the
\* tree as it is.
C9_MkdirAllIdempotent ==
    [][(/\ ret'.op = "mkdirAll"
        /\ ret'.name \in Paths \ {Root}
        /\ \A q \in Prefixes(ret'.name) : entries[q] \in {"none", "dir"})
       => /\ ret'.err = "nil"
          /\ \A q \in Prefixes(ret'.name) :
                /\ entries'[q] = "dir"
                /\ stat(Tree', Root, q).err = "nil"
                /\ IsDir(stat(Tree', Root, q))
          /\ mkdirAll(Tree', Root, ret'.name, FALSE, now').err = "nil"
          /\ mkdirAll(Tree', Root, ret'.name, FALSE, now').S = Tree'
          /\ (ret.op = "mkdirAll" /\ ret.name = ret'.name /\ ret.err = "nil")
                => UNCHANGED <<entries, attrs, data>>]_vars

\* mkdirAll has made a directory and its parent
C9_Witness ==
    /\ ret.op = "mkdirAll"
    /\ ret.err = "nil"
    /\ Len(ret.name) = 2
    /\ \A q \in Prefixes(ret.name) : entries[q] = "dir"

\* C10: open and openFile without the create flag, of a path at which there
\* is nothing, return the does-not-exist error and add nothing: the tree,
\* the cells and the handles are as before.
C10_OpenMissingCreatesNothing ==
    [][(/\ ret'.op \in {"open", "openFile"}
        /\ ~HasFlag(ret'.flag, O_CREATE)
        /\ Missing(ret'.name))
       => /\ ret'.err = "ErrNotExist"
          /\ UNCHANGED <<entries, attrs, data, files>>]_vars

\* an open for reading and writing has been refused on a path whose parent
\* is missing as well
C10_Witness ==
    /\ ret.op = "openFile"
    /\ ret.err = "ErrNotExist"
    /\ Len(ret.name) = 2
    /\ \A q \in Prefixes(ret.name) : entries[q] = "none"

(***************************************************************************)
(* SpecSeek: the read cursor under Seek.  One handle on a regular file     *)
(* that grows by writes of one and of two bytes; seeks by every offset     *)
(* from -MaxOff to MaxOff and every whence, one of them no whence at all.  *)
(***************************************************************************)
SeekCap == 6
SeekOffsets == (0 - MaxOff)..MaxOff
\* io.SeekStart, io.SeekCurrent, io.SeekEnd and a value that is none of them
Whences == {SeekStart, SeekCurrent, SeekEnd, 3}
CursorBufs == {<<1, 2>>, <<3>>}

NextSeek ==
    \/ OpenFile(FileA, CreateFlags, FALSE) /\ NoHandle
    \/ \E h \in Handles : \E b \in CursorBufs : Write(h, b) /\ Within(SeekCap, 0)'
    \/ \E h \in Handles : \E off \in SeekOffsets : \E w \in Whences : Seek(h, off, w)

SpecSeek == Init /\ [][NextSeek]_vars

\* C11: a seek that returns on an open handle of a regular file that may be
\* read sets the read cursor to offset (start), to the read cursor plus
\* offset (current) or to the size plus offset (end) and returns that
\* position; with any other whence, or when that position is negative, it
\* returns an error and leaves the read cursor where it was.
C11_SeekSetsCursor ==
    [][\A h \in Handles :
        (/\ ret'.op = "seek" /\ ret'.h = h /\ ret'.err # "blocked"
         /\ ~files[h].closed /\ ~files[h].dot /\ AccMode(files[h].flag) # O_WRONLY)
        => IF /\ ret'.len \in {SeekStart, SeekCurrent, SeekEnd}
              /\ (ret'.len = SeekStart => ret'.off >= 0)
              /\ (ret'.len = SeekCurrent => files[h].rOff + ret'.off >= 0)
              /\ (ret'.len = SeekEnd => attrs[files[h].fd].size + ret'.off >= 0)
           THEN /\ ret'.err = "nil"
                /\ ret'.len = SeekStart => ret'.n = ret'.off
                /\ ret'.len = SeekCurrent => ret'.n = files[h].rOff + ret'.off
                /\ ret'.len = SeekEnd => ret'.n = attrs[files[h].fd].size + ret'.off
                /\ files'[h].rOff = ret'.n
           ELSE /\ ret'.err \in {"ErrWhence", "ErrNegative"}
                /\ files'[h].rOff = files[h].rOff]_vars

\* a seek from the end of a file that holds content has moved the cursor back
C11_Witness ==
    /\ ret.op = "seek"
    /\ ret.err = "nil"
    /\ ret.len = SeekEnd
    /\ ret.off < 0
    /\ attrs[files[ret.h].fd].size > 0
    /\ files[ret.h].rOff = attrs[files[ret.h].fd].size + ret.off
    /\ files[ret.h].rOff = ret.n

(***************************************************************************)
(* SpecCursor: reads and writes at the cursors.  A handle on one regular   *)
(* file, which WriteFile with no content truncates under it; writes of one *)
(* and of two bytes, reads into buffers of one and of two bytes at the     *)
(* read cursor and at every offset up to MaxOff, and seeks to the start    *)
(* and to MaxOff.                                                          *)
(***************************************************************************)
CursorCap == 6
CursorRLock == 4
Offsets == 0..MaxOff
BufLens == {1, 2}

NextCursor ==
    \/ OpenFile(FileA, CreateFlags, FALSE) /\ Handed(OneFile)'
    \/ WriteFile(FileA, << >>, FALSE) /\ Within(CursorCap, CursorRLock)'
    \/ \E h \in Handles : \E b \in CursorBufs : Write(h, b) /\ Within(CursorCap, CursorRLock)'
    \/ \E h \in Handles : \E n \in BufLens : Read(h, n) /\ Within(CursorCap, CursorRLock)'
    \/ \E h \in Handles : \E n \in BufLens : \E off \in Offsets :
            ReadAt(h, n, off) /\ Within(CursorCap, CursorRLock)'
    \/ \E h \in Handles : \E off \in {0, MaxOff} : Seek(h, off, SeekStart)

SpecCursor == Init /\ [][NextCursor]_vars

\* the handle is open, on a regular file, and its flags do not have the
\* write-only access mode
Readable(h) == ~files[h].closed /\ ~files[h].dot /\ AccMode(files[h].flag) # O_WRONLY

\* C12: a readAt with a buffer that is not empty, on an open readable handle
\* of a regular file: at an offset at or beyond the size it returns no byte
\* and end-of-data; at an offset below the size it returns
\* min(len(buf), size - offset) bytes, those of the content from the offset
\* on, and end-of-data exactly when that is less than len(buf).
C12_ReadAtShortAtEnd ==
    \A h \in Handles :
        (/\ ret.op = "readAt" /\ ret.h = h /\ ret.err # "blocked" /\ ret.len > 0
         /\ Readable(h))
        => IF ret.off >= attrs[files[h].fd].size
           THEN ret.err = "EOF" /\ ret.n = 0 /\ ret.out = << >>
           ELSE /\ ret.n = Min(ret.len, attrs[files[h].fd].size - ret.off)
                /\ ret.out = SubSeq(data[files[h].fd], ret.off + 1, ret.off + ret.n)
                /\ ret.err = IF ret.n < ret.len THEN "EOF" ELSE "nil"

\* C15: a write that succeeds through a handle leaves every byte of the
\* buffer outside the range it wrote at its offset with its value, and the
\* capacity afterwards is at least the length before plus the bytes written;
\* a write into a buffer of capacity zero allocates one, and readAt of the
\* handle at offset 0 then returns the bytes written.
C15_GrowthPreservesData ==
    [][\A h \in Handles :
        (ret'.op = "write" /\ ret'.h = h /\ ret'.err = "nil")
        => /\ ret'.n = Len(ret'.buf)
           /\ Len(data'[files[h].fd]) >= Len(data[files[h].fd]) + Len(ret'.buf)
           /\ \A i \in 1..Len(data[files[h].fd]) :
                 (i <= files[h].wOff \/ i > files[h].wOff + ret'.n)
                     => data'[files[h].fd][i] = data[files[h].fd][i]
           /\ \A i \in 1..ret'.n : data'[files[h].fd][files[h].wOff + i] = ret'.buf[i]
           /\ (Len(data[files[h].fd]) = 0 /\ Len(ret'.buf) > 0)
                 => /\ Len(data'[files[h].fd]) > 0
                    /\ FileReadAt(Tree', files'[h], fdmu'[files[h].fd], Len(ret'.buf), 0).out
                           = ret'.buf]_vars

\* a second write has grown a buffer that held two bytes, and all three
\* bytes are in their places
C15_Witness ==
    /\ ret.op = "write"
    /\ ret.err = "nil"
    /\ ret.buf = <<3>>
    /\ files[ret.h].wOff = 3
    /\ Len(data[files[ret.h].fd]) = 6
    /\ SubSeq(data[files[ret.h].fd], 1, 3) = <<1, 2, 3>>

\* C19: a read that returns, with a buffer that is not empty, on an open
\* readable handle of a regular file: with the read cursor at or beyond the
\* size it returns no byte and end-of-data and leaves the cursor; otherwise
\* it returns min(len(buf), size - cursor) bytes, those of the content from
\* the cursor on, without error, and moves the cursor on by that count.
C19_ReadAdvancesCursor ==
    [][\A h \in Handles :
        (/\ ret'.op = "read" /\ ret'.h = h /\ ret'.err # "blocked" /\ ret'.len > 0
         /\ Readable(h))
        => IF files[h].rOff >= attrs[files[h].fd].size
           THEN /\ ret'.err = "EOF" /\ ret'.n = 0 /\ ret'.out = << >>
                /\ files'[h].rOff = files[h].rOff
           ELSE /\ ret'.err = "nil"
                /\ ret'.n = Min(ret'.len, attrs[files[h].fd].size - files[h].rOff)
                /\ ret'.out = SubSeq(data[files[h].fd], files[h].rOff + 1,
                                     files[h].rOff + ret'.n)
                /\ files'[h].rOff = files[h].rOff + ret'.n]_vars

\* a second read of one byte has returned the second byte of the content
C19_Witness ==
    /\ ret.op = "read"
    /\ ret.err = "nil"
    /\ ret.len = 1
    /\ ret.out = <<2>>
    /\ files[ret.h].rOff = 2
    /\ fdmu[files[ret.h].fd].r = 2 * bytesRLocks

\* C20: read and readAt return no byte at an offset at or beyond the size:
\* the bytes a call returns end at or before the size, and readAt at offset 0
\* of a file of size 0 returns no byte and end-of-data.
C20_NoByteBeyondSize ==
    \A h \in Handles :
        (ret.h = h /\ ret.err # "blocked" /\ Readable(h))
        => /\ (ret.op = "read" /\ ret.n > 0) => files[h].rOff <= attrs[files[h].fd].size
           /\ (ret.op = "readAt" /\ ret.n > 0) => ret.off + ret.n <= attrs[files[h].fd].size
           /\ (ret.op = "readAt" /\ ret.len > 0 /\ ret.off = 0 /\ attrs[files[h].fd].size = 0)
                 => ret.n = 0 /\ ret.err = "EOF"

(***************************************************************************)
(* SpecDir: directories and their iterators.  The root holds the           *)
(* directory "a" and the file "b", "a" holds the file "a/b", each made by  *)
(* whichever call comes first; a handle on the root or on "a" is read      *)
(* with every count from -1 to MaxCount, and the facade reads both.        *)
(***************************************************************************)
DirCap == 1
MaxCount == 2
DirCounts == (0 - 1)..MaxCount
DirArgs == {Dot, FileA}
\* the names of a walk without the "." entry
NonDot(walk) == SelectSeq(walk, LAMBDA x : x # ".")
\* the directory a path argument names
DirOf(p) == IF p = Dot THEN Root ELSE p

NextDir ==
    \/ MkdirAll(FileA, FALSE)
    \/ WriteFile(FileB, <<1>>, FALSE) /\ Within(DirCap, 0)'
    \/ WriteFile(FileAB, <<1>>, FALSE) /\ Within(DirCap, 0)'
    \/ \E p \in DirArgs : Open(p) /\ Handed(OneFile)'
    \/ \E h \in Handles : \E n \in DirCounts : \E order \in HandleOrders(h) :
            ReadDirFile(h, n, order)
    \/ \E p \in DirArgs : \E order \in IterOrders(Tree, DirOf(p)) :
            entries[DirOf(p)] = "dir" /\ ReadDir(p, order)

SpecDir == Init /\ [][NextDir]_vars

\* C13: a readDir(n) with n > 0 that returns on an open handle of a
\* directory takes the next names of the iterator's walk, in the order of
\* the walk and without the "." entry: what it returns followed by what is
\* left is what was left before (for a new iterator: one of the walks of
\* the directory).  It returns n names without error, or fewer than n with
\* end-of-sequence and nothing left; the iterator stays bound to the handle,
\* so an exhausted iterator returns no name and end-of-sequence ever after.
C13_IteratorPagination ==
    [][\A h \in Handles :
        (/\ ret'.op = "readDirFile" /\ ret'.h = h /\ ret'.err # "blocked" /\ ret'.len > 0
         /\ ~files[h].closed /\ files[h].dot)
        => /\ \E walk \in (IF files[h].dirIter.bound THEN {files[h].dirIter.rest}
                             ELSE HandleOrders(h)) :
                 NonDot(walk) = ret'.list \o NonDot(files'[h].dirIter.rest)
           /\ \A i \in 1..Len(ret'.list) : ret'.list[i] # "."
           /\ \A i, j \in 1..Len(ret'.list) : ret'.list[i] = ret'.list[j] => i = j
           /\ Len(ret'.list) <= ret'.len
           /\ Len(ret'.list) = ret'.len => ret'.err = "nil"
           /\ Len(ret'.list) < ret'.len
                 => ret'.err = "EOF" /\ NonDot(files'[h].dirIter.rest) = << >>
           /\ files'[h].dirIter.bound]_vars

\* a second readDir(1) has returned the second child of a directory of two
C13_Witness ==
    /\ ret.op = "readDirFile"
    /\ ret.len = 1
    /\ ret.err = "nil"
    /\ Len(ret.list) = 1
    /\ files[ret.h].dirIter.bound
    /\ NonDot(files[ret.h].dirIter.rest) = << >>
    /\ Cardinality(Children(Tree, files[ret.h].fd)) = 2

\* C14: readDir(path) of a directory returns its children, one entry each,
\* and no error; readDir(n) with n <= 0 that returns on an open handle of a
\* directory returns no error and leaves nothing in the iterator; however
\* many children there are and wherever "." is in the walk.
C14_DrainReturnsAll ==
    /\ (ret.op = "readDir" /\ entries[DirOf(ret.name)] = "dir")
          => /\ ret.err = "nil"
             /\ {ret.list[i] : i \in 1..Len(ret.list)} = Children(Tree, DirOf(ret.name))
             /\ Len(ret.list) = Cardinality(Children(Tree, DirOf(ret.name)))
    /\ \A h \in Handles :
          (/\ ret.op = "readDirFile" /\ ret.h = h /\ ret.err # "blocked" /\ ret.len <= 0
           /\ ~files[h].closed /\ files[h].dot)
          => ret.err = "nil" /\ NonDot(files[h].dirIter.rest) = << >>

\* the path argument that names directory q
ArgOf(q) == IF q = Root THEN Dot ELSE q

\* C17: after writeFile has written a file at a nested path, the file and
\* each directory above it can be stat'ed and opened from the root; readDir
\* of the root and of each directory above the file, whatever the order of
\* the iterator's walk, returns no error and one entry per child, each
\* naming a child whose kind is the kind stat reports; and readFile of the
\* file returns as many bytes as its size.
C17_NamespaceConsistent ==
    (ret.op = "writeFile" /\ ret.err = "nil" /\ Len(ret.name) = MaxDepth)
    => /\ \A q \in Prefixes(ret.name) :
             /\ stat(Tree, Root, q).err = "nil"
             /\ open(Tree, Root, q, O_RDONLY, FALSE, now).err = "nil"
       /\ \A q \in {Root} \cup Ancestors(ret.name) :
             \A order \in IterOrders(Tree, q) :
                 Let(readDir(Tree, Root, ArgOf(q), order), LAMBDA r :
                     /\ r.err = "nil"
                     /\ Len(r.list) = Cardinality(Children(Tree, q))
                     /\ {r.list[i] : i \in 1..Len(r.list)} = Children(Tree, q)
                     /\ \A i \in 1..Len(r.list) :
                           /\ stat(Tree, Root, Append(q, r.list[i])).err = "nil"
                           /\ IsDir(stat(Tree, Root, Append(q, r.list[i])))
                                 = (entries[Append(q, r.list[i])] = "dir"))
       /\ readFile(Tree, Root, ret.name, fdmu, now).err = "nil"
       /\ Len(readFile(Tree, Root, ret.name, fdmu, now).out) = attrs[ret.name].size

(***************************************************************************)
(* SpecShare: handles that share a cell.  Up to MaxFiles handles on one    *)
(* regular file, the first creating it; each writes one byte at a time at  *)
(* its own cursor, reads into a buffer of MaxOff bytes, and is closed.     *)
(***************************************************************************)
ShareCap == 6
ShareRLock == 2

NextShare ==
    \/ OpenFile(FileA, CreateFlags, FALSE) /\ NoHandle
    \/ OpenFile(FileA, O_RDWR, FALSE) /\ ~NoHandle
    \/ \E h \in Handles : Write(h, <<1>>) /\ Within(ShareCap, ShareRLock)'
    \/ \E h \in Handles : Read(h, MaxOff) /\ Within(ShareCap, ShareRLock)'
    \/ \E h \in Handles : Close(h)

SpecShare == Init /\ [][NextShare]_vars

\* handle a is a closed handle of the cell of handle b
ClosedOn(a, b) == a # b /\ files[a].used /\ files[a].closed /\ files[a].fd = files[b].fd

\* C16: once a handle of a cell is closed, a write through another open
\* handle of the cell returns without error, and a read from offset 0
\* through a third open handle, into a buffer that is long enough, returns
\* every byte written to the cell since its last truncation.
C16_CloseLeavesCellToOthers ==
    \A a, b \in Handles :
        (ClosedOn(a, b) /\ ret.h = b /\ Readable(b))
        => /\ ret.op = "write" => ret.err = "nil"
           /\ (/\ ret.op = "read" /\ files[b].rOff = ret.n /\ ret.len >= hi[files[b].fd]
               /\ \E w \in Handles \ {a, b} :
                     files[w].used /\ ~files[w].closed /\ files[w].fd = files[b].fd
                     /\ files[w].wOff > 0)
                 => ret.n = hi[files[b].fd]

(***************************************************************************)
(* SpecReadFrom: File.ReadFrom and its sources.  Handles on one regular    *)
(* file; the sources are nil, readers that have WriteTo (bytes.Reader,     *)
(* bytes.Buffer, strings.Reader) and plain readers that have Read alone,   *)
(* each holding no, one or two bytes.  A process that has died of a fatal  *)
(* error takes no further step.                                            *)
(***************************************************************************)
ReadFromCap == 6
NilReader == [kind |-> "nil", bytes |-> << >>]
\* an io.Reader that has Read and nothing else
PlainReader(b) == [kind |-> "Reader", bytes |-> b]
SourceBufs == {<< >>, <<1>>, <<1, 2>>}
Sources == {NilReader} \cup {WriterTo(b) : b \in SourceBufs} \cup {PlainReader(b) : b \in SourceBufs}
\* the process has not died
Alive == ret.err # "fatal"

NextReadFrom ==
    \/ Alive /\ OpenFile(FileA, CreateFlags, FALSE) /\ NoHandle
    \/ Alive /\ OpenFile(FileA, O_RDWR, FALSE) /\ ~NoHandle /\ Handed(FewFiles)'
    \/ \E h \in Handles : \E src \in Sources :
            Alive /\ ReadFrom(h, src) /\ Within(ReadFromCap, 0)'
    \/ \E h \in Handles : Alive /\ Close(h)

SpecReadFrom == Init /\ [][NextReadFrom]_vars

\* C21: readFrom of a source that is not nil, on an open handle of a regular
\* file that may be written, returns: it does not end the process and is not
\* left waiting.  It returns no error and the number of bytes the source
\* held, and those bytes are in the buffer right before the write cursor.
C21_ReadFromTerminates ==
    \A h \in Handles :
        (/\ ret.op = "readFrom" /\ ret.h = h /\ ret.err # "ErrNilReader"
         /\ ~files[h].closed /\ ~files[h].dot /\ AccMode(files[h].flag) # O_RDONLY)
        => /\ ret.err = "nil"
           /\ ret.n = Len(ret.buf)
           /\ files[h].wOff >= ret.n
           /\ SubSeq(data[files[h].fd], files[h].wOff - ret.n + 1, files[h].wOff) = ret.buf

(***************************************************************************)
(* SpecMkdir: Mkdir and the resolution of paths.  The names "a" and "b"    *)
(* in the root and one below the other, each made a directory by Mkdir or  *)
(* a regular file by WriteFile, whichever comes first, while the clock     *)
(* runs; Stat, Open and Sub resolve the same paths.                        *)
(***************************************************************************)
MkdirCap == 1
FileBA == <<"b", "a">>
MkdirArgs == {Dot, FileA, FileB, FileAB, FileBA}
Nested == {FileAB, FileBA}

\* MemFS.Sub: the view is named by the directory it is rooted at
Sub(p) ==
    /\ Idle
    /\ Let(sub(Tree, Root, p), LAMBDA r :
        ret' = [Call("sub") EXCEPT !.name = p, !.err = r.err,
                                   !.list = IF r.err = "nil" THEN r.dir ELSE << >>])
    /\ UNCHANGED <<entries, attrs, data, fdmu, files, thr, now, hi>>

NextMkdir ==
    \/ Tick
    \/ \E p \in MkdirArgs : Mkdir(p, FALSE)
    \/ WriteFile(FileB, <<1>>, FALSE) /\ Within(MkdirCap, 0)'
    \/ \E p \in Nested : Stat(p)
    \/ \E p \in Nested : Open(p) /\ Handed(OneFile)'
    \/ \E p \in Nested : Sub(p)

SpecMkdir == Init /\ [][NextMkdir]_vars

\* the path has two segments and the first of them is a regular file
UnderFile(p) == Len(p) = 2 /\ Front(p) \in Paths /\ entries[Front(p)] = "fd"

\* C22: mkdir of a path whose parent is a regular file returns the
\* not-a-directory error, as an error and not as a panic, and leaves the
\* tree as it was.
C22_MkdirUnderFile ==
    [][(ret'.op = "mkdir" /\ UnderFile(ret'.name))
       => /\ ret'.err = "ErrNotDir"
          /\ UNCHANGED <<entries, attrs, data>>]_vars

\* C23: stat, open and sub of a path of two segments whose first segment is
\* a regular file return the not-a-directory error, which is not the error
\* returned when a segment is missing.
C23_NotDirDistinct ==
    (ret.op \in {"stat", "open", "sub"} /\ UnderFile(ret.name))
    => ret.err = "ErrNotDir" /\ ret.err # "ErrNotExist"

\* C24: mkdir of a name that is already in its parent, as a directory or as
\* a regular file, returns the already-exists error; mkdir(".") returns an
\* error; and either leaves the tree as it was: every entry, the child that
\* is there, and the modification time of the parent.
C24_MkdirExisting ==
    [][ret'.op = "mkdir" =>
        /\ (ret'.name \in Paths /\ entries[ret'.name] # "none")
              => /\ ret'.err = "ErrExist"
                 /\ UNCHANGED <<entries, attrs, data>>
        /\ ret'.name = Dot
              => /\ ret'.err \notin {"nil", "panic"}
                 /\ UNCHANGED <<entries, attrs, data>>]_vars

\* mkdir has been refused on the name of a regular file, at a time later
\* than the modification time of the parent
C24_Witness ==
    /\ ret.op = "mkdir"
    /\ ret.err = "ErrExist"
    /\ entries[ret.name] = "fd"
    /\ attrs[Root].mtime # 0
    /\ attrs[Root].mtime < now

(***************************************************************************)
(* SpecRace: two callers and one missing name.  The directory "a" is       *)
(* there; callers create the file "a/b" or make the directory "a/b", each  *)
(* through the root or through the view Sub("a") of the directory.  A      *)
(* call is two steps: the lookup that finds the name missing, made with    *)
(* the mutex of the caller's own view held, and the insertion that follows *)
(* it.  The trie is not part of the repository: what AddEntry does with a  *)
(* name that has been added in between is one of TrieOutcomes.  A cell     *)
(* that is put out of its directory is kept under the path Detached, at    *)
(* which the tree has no entry.                                            *)
(***************************************************************************)
RaceCap == 1
RaceDir == FileA
RacePath == FileAB
Detached == <<"b", "b">>
\* the filesystem objects a caller may hold: the root and Sub("a")
Views == {Root, RaceDir}
\* the name of RacePath for a caller of view v
Rel(v) == SubSeq(RacePath, Len(v) + 1, Len(RacePath))
\* a thread between the lookup and the insertion of create or of mkdir
InFlight == {"create@root", "create@sub", "mkdir@root", "mkdir@sub"}
At(op, v) ==
    IF op = "create" THEN (IF v = Root THEN "create@root" ELSE "create@sub")
    ELSE (IF v = Root THEN "mkdir@root" ELSE "mkdir@sub")
ViewOf(pos) == IF pos \in {"create@root", "mkdir@root"} THEN Root ELSE RaceDir
\* MemFS.mutex of view v is held by no thread
MuFree(v) == \A t \in Threads : thr[t] \in InFlight => ViewOf(thr[t]) # v
\* AddEntry of a name the trie holds: the new entry takes the place of the
\* old one, or the call is refused
TrieOutcomes == {"replace", "reject"}

\* the tree after the entry at p has been put out of its directory
displace(S, p) ==
    [S EXCEPT !.entries[p] = "none", !.data[Detached] = S.data[p],
              !.attrs[Detached] = S.attrs[p]]
\* what referred to the cell at p refers to the cell that was put out
Moved(f, p, from) == [q \in Paths |-> IF q = Detached THEN from[p] ELSE f[q]]

\* open -> create -> newfd up to the lookup of the name, which is missing
CreateLookup(t, v) ==
    /\ thr[t] = "idle"
    /\ MuFree(v)
    /\ entries[RaceDir] = "dir"
    /\ stat(Tree, v, Rel(v)).err = "ErrNotExist"
    /\ thr' = [thr EXCEPT ![t] = At("create", v)]
    /\ UNCHANGED <<entries, attrs, data, fdmu, files, now, hi, ret>>

\* Mkdir -> mkdir up to the lookup of the name, which is missing
MkdirLookup(t, v) ==
    /\ thr[t] = "idle"
    /\ MuFree(v)
    /\ entries[RaceDir] = "dir"
    /\ stat(Tree, v, Rel(v)).err = "ErrNotExist"
    /\ thr' = [thr EXCEPT ![t] = At("mkdir", v)]
    /\ UNCHANGED <<entries, attrs, data, fdmu, files, now, hi, ret>>

\* the handles after the cell at RacePath was put out of its directory
Orphaned ==
    [h \in Handles |->
        IF files[h].used /\ files[h].fd = RacePath
        THEN [files[h] EXCEPT !.fd = Detached] ELSE files[h]]

\* newfd from AddEntry on, newFile, and the return of create and of open
CreateInsert(t, out) ==
    /\ thr[t] \in {"create@root", "create@sub"}
    /\ FreeHandle
    /\ out \in TrieOutcomes
    /\ entries[RacePath] = "none" => out = "replace"
    /\ IF entries[RacePath] # "none" /\ out = "reject"
       THEN /\ ret' = [Call("create") EXCEPT !.name = Rel(ViewOf(thr[t])), !.flag = CreateFlags,
                                             !.err = "ErrExist"]
            /\ UNCHANGED <<entries, attrs, data, fdmu, files, hi>>
       ELSE Let(createFile(newfd(displace(Tree, RacePath), RaceDir, Base(RacePath),
                                 CreateFlags, FALSE, now), CreateFlags),
                LAMBDA o :
                    /\ SetTree(o.S)
                    /\ files' = [Orphaned EXCEPT ![NewHandle] = o.file]
                    /\ fdmu' = [Moved(fdmu, RacePath, fdmu) EXCEPT ![RacePath] = FreeFdMu]
                    /\ hi' = [Moved(hi, RacePath, hi) EXCEPT ![RacePath] = 0]
                    /\ ret' = [Call("create") EXCEPT !.name = Rel(ViewOf(thr[t])),
                                     !.flag = CreateFlags, !.err = o.err, !.h = NewHandle])
    /\ thr' = [thr EXCEPT ![t] = "idle"]
    /\ UNCHANGED now

\* mkdir from newDir on, and the return of Mkdir
MkdirInsert(t, out) ==
    /\ thr[t] \in {"mkdir@root", "mkdir@sub"}
    /\ out \in TrieOutcomes
    /\ entries[RacePath] = "none" => out = "replace"
    /\ IF entries[RacePath] # "none" /\ out = "reject"
       THEN /\ ret' = [Call("mkdir") EXCEPT !.name = Rel(ViewOf(thr[t])), !.err = "ErrExist"]
            /\ UNCHANGED <<entries, attrs, data, fdmu, files, hi>>
       ELSE Let(mkdirIn(displace(Tree, RacePath), RaceDir, RacePath, now), LAMBDA r :
                    /\ SetTree(r.S)
                    /\ files' = Orphaned
                    /\ fdmu' = [Moved(fdmu, RacePath, fdmu) EXCEPT ![RacePath] = FreeFdMu]
                    /\ hi' = [Moved(hi, RacePath, hi) EXCEPT ![RacePath] = 0]
                    /\ ret' = [Call("mkdir") EXCEPT !.name = Rel(ViewOf(thr[t])), !.err = r.err])
    /\ thr' = [thr EXCEPT ![t] = "idle"]
    /\ UNCHANGED now

NextRace ==
    \/ MkdirAll(RaceDir, FALSE) /\ MuFree(Root)
    \/ \E t \in Threads : \E v \in Views : CreateLookup(t, v)
    \/ \E t \in Threads : \E v \in Views : MkdirLookup(t, v)
    \/ \E t \in Threads : \E out \in TrieOutcomes : CreateInsert(t, out)
    \/ \E t \in Threads : \E out \in TrieOutcomes : MkdirInsert(t, out)
    \/ OpenFile(RacePath, CreateFlags, FALSE) /\ MuFree(Root) /\ Handed(FewFiles)'
    \/ \E h \in Handles : Write(h, <<1>>) /\ Within(RaceCap, 0)'
    \/ ReadFile(RacePath) /\ Within(RaceCap, MaxRLock)'

SpecRace == Init /\ [][NextRace]_vars

\* C25: when two callers create or make the same missing name in one
\* directory, through the root or through a view of the directory, one
\* child has the name and every caller that was handed a file refers to
\* that child: no handle is left on a cell that is in no directory.
C25_OneChildPerName ==
    \A h \in Handles : files[h].used => entries[files[h].fd] # "none"

(***************************************************************************)
(* SpecKind: handles of directories and of regular files.  The root, the   *)
(* name "a", made a directory by MkdirAll or a regular file by an open     *)
(* with the create flag, and the regular file "b" are opened with flags    *)
(* of every access mode, one handle at a time, and every method of File    *)
(* is called on the handle.                                                *)
(***************************************************************************)
KindCap == 3
KindRLock == 2
KindArgs == {Dot, FileA, FileB}
KindCounts == {0 - 1, 1}
\* flags of every access mode, with and without create, truncate and append
KindFlags == {O_RDONLY, O_WRONLY + O_APPEND, O_RDWR + O_TRUNC, CreateFlags}

NextKind ==
    \/ MkdirAll(FileA, FALSE)
    \/ WriteFile(FileB, <<1>>, FALSE) /\ NoHandle /\ Within(KindCap, KindRLock)'
    \/ \E p \in KindArgs : \E flag \in KindFlags : OpenFile(p, flag, FALSE) /\ NoHandle
    \/ \E h \in Handles : Read(h, 1) /\ Within(KindCap, KindRLock)'
    \/ \E h \in Handles : ReadAt(h, 1, 0) /\ Within(KindCap, KindRLock)'
    \/ \E h \in Handles : Seek(h, 0, SeekStart)
    \/ \E h \in Handles : Write(h, <<2>>) /\ Within(KindCap, KindRLock)'
    \/ \E h \in Handles : ReadFrom(h, WriterTo(<<2>>)) /\ Within(KindCap, KindRLock)'
    \/ \E h \in Handles : StatFile(h)
    \/ \E h \in Handles : \E n \in KindCounts : \E order \in HandleOrders(h) :
            ReadDirFile(h, n, order)

SpecKind == Init /\ [][NextKind]_vars

CreateCap == 6
CreateRLock == 2

NextCreate ==
    \/ Tick
    \/ Create(FileA) /\ Handed(FewFiles)'
    \/ \E h \in Handles : \E b \in CursorBufs : Write(h, b) /\ Within(CreateCap, CreateRLock)'
    \/ \E h \in Handles : Read(h, 1) /\ Within(CreateCap, CreateRLock)'

SpecCreate == Init /\ [][NextCreate]_vars

\* C28: create of a path at which there is a regular file with content
\* returns no error and adds no entry: the directory has the children it
\* had and the entry is the one that was there, with its creation time.
\* Right after the call stat of the path returns size 0, a read through a
\* newly opened handle returns no byte and end-of-data, and the handle
\* returned has its read cursor and its write cursor at 0.
C28_CreateTruncates ==
    [][(/\ ret'.op = "create"
        /\ ret'.name \in Paths
        /\ entries[ret'.name] = "fd"
        /\ attrs[ret'.name].size > 0)
       => /\ ret'.err = "nil"
          /\ entries' = entries
          /\ Children(Tree', Root) = Children(Tree, Root)
          /\ attrs'[ret'.name].ctime = attrs[ret'.name].ctime
          /\ attrs'[ret'.name].size = 0
          /\ stat(Tree', Root, ret'.name).err = "nil"
          /\ stat(Tree', Root, ret'.name).path = ret'.name
          /\ Let(open(Tree', Root, ret'.name, O_RDONLY, FALSE, now'), LAMBDA o :
                /\ o.err = "nil"
                /\ FileRead(o.S, o.file, fdmu'[ret'.name], 1).err = "EOF"
                /\ FileRead(o.S, o.file, fdmu'[ret'.name], 1).n = 0)
          /\ files'[ret'.h].fd = ret'.name
          /\ files'[ret'.h].rOff = 0
          /\ files'[ret'.h].wOff = 0]_vars

\* create has truncated a file that another handle had written, at a time
\* later than the creation time of the file
C28_Witness ==
    /\ ret.op = "create"
    /\ ret.err = "nil"
    /\ attrs[ret.name].size = 0
    /\ attrs[ret.name].ctime < now
    /\ Len(data[ret.name]) > 0
    /\ \E g \in Handles \ {ret.h} : files[g].used /\ files[g].fd = ret.name /\ files[g].wOff > 0

(***************************************************************************)
(* SpecGlob: Glob on a small tree.  The root holds the directory "a" and   *)
(* the file "b"; "a" holds the file "a/a" and "a/b", a file or a directory *)
(* by whichever call makes it.  fs.WalkDir visits a path, reads a          *)
(* directory with                                                          *)
(* MemFS.ReadDir, whose iterator walks in an order the trie decides, and   *)
(* visits the entries in the order ReadDir returned them.  A pattern is a  *)
(* sequence of segments, each a name or "*".                               *)
(***************************************************************************)
GlobCap == 1
GlobDirs == {FileA, FileAB}
GlobFiles == {FileB, FileAB, <<"a", "a">>}
Patterns == {<<"*">>, <<"b">>, <<"*", "*">>, <<"a", "*">>}
\* the name fs.WalkDir gives to the entry at p: "." for the root
PathName(p) == IF p = Root THEN Dot ELSE p
\* filepath.Match(pattern, path) for a pattern of names and "*"
Match(pattern, p) ==
    /\ Len(pattern) = Len(p)
    /\ \A i \in 1..Len(p) : pattern[i] = "*" \/ pattern[i] = p[i]

\* the directories that may have children, and an order of walk for each; a
\* directory at the depth MaxDepth holds "." and nothing else
WalkDirs(S) == {d \in Paths : S.entries[d] = "dir" /\ Len(d) < MaxDepth}
WalkOrders(S) ==
    {o \in [WalkDirs(S) -> UNION {IterOrders(S, d) : d \in WalkDirs(S)}] :
        \A d \in WalkDirs(S) : o[d] \in IterOrders(S, d)}

\* fs.walkDir: the callback on the entry, ReadDir when it is a directory, the
\* callback once more with the error of ReadDir, which the callback of Glob
\* returns, and the entries one by one; acc is the paths visited so far
RECURSIVE walkDir(_, _, _, _)
RECURSIVE walkList(_, _, _, _, _)
walkDir(S, p, orders, acc) ==
    IF S.entries[p] # "dir" THEN [err |-> "nil", paths |-> Append(acc, p)]
    ELSE Let(readDir(S, Root, ArgOf(p), IF p \in DOMAIN orders THEN orders[p] ELSE Dot),
             LAMBDA r :
             IF r.err # "nil" THEN [err |-> r.err, paths |-> Append(acc, p)]
             ELSE walkList(S, p, r.list, orders, Append(acc, p)))

walkList(S, p, list, orders, acc) ==
    IF list = << >> THEN [err |-> "nil", paths |-> acc]
    ELSE Let(walkDir(S, Append(p, Head(list)), orders, acc), LAMBDA w :
             IF w.err # "nil" THEN w
             ELSE walkList(S, p, Tail(list), orders, w.paths))

\* MemFS.Glob: the matches found before the walk ended, and the error of the
\* walk, wrapped
glob(S, pattern, orders) ==
    Let(walkDir(S, Root, orders, << >>), LAMBDA w :
        [err |-> w.err,
         list |-> SelectSeq([i \in 1..Len(w.paths) |-> PathName(w.paths[i])],
                            LAMBDA q : Match(pattern, q))])

Glob(pattern, orders) ==
    /\ Idle
    /\ orders \in WalkOrders(Tree)
    /\ Let(glob(Tree, pattern, orders), LAMBDA r :
        ret' = [Call("glob") EXCEPT !.name = pattern, !.err = r.err, !.list = r.list])
    /\ UNCHANGED <<entries, attrs, data, fdmu, files, thr, now, hi>>

NextGlob ==
    \/ \E p \in GlobDirs : MkdirAll(p, FALSE)
    \/ \E p \in GlobFiles : WriteFile(p, <<1>>, FALSE) /\ Within(GlobCap, 0)'
    \/ \E pattern \in Patterns : \E orders \in WalkOrders(Tree) : Glob(pattern, orders)

SpecGlob == Init /\ [][NextGlob]_vars

\* the names of the root and of every entry of the tree
Walked == {PathName(p) : p \in {q \in Paths : entries[q] # "none"}}

\* C29: glob returns no error on any tree, one with empty directories
\* included, and returns the names of the walk from the root that match the
\* pattern, each once.
C29_GlobSucceeds ==
    ret.op = "glob"
    => /\ ret.err = "nil"
       /\ {ret.list[i] : i \in 1..Len(ret.list)} = {q \in Walked : Match(ret.name, q)}
       /\ \A i, j \in 1..Len(ret.list) : ret.list[i] = ret.list[j] => i = j

(***************************************************************************)
(* SpecWrite: the write cursors and the capacity.  Handles on one regular  *)
(* file, opened with and without truncation; each writes no, one or two    *)
(* bytes at its own cursor, and WriteFile with no content truncates the    *)
(* file under them.                                                        *)
(***************************************************************************)
WriteCap == 11
WriteBufs == {<< >>, <<1>>, <<2, 3>>}

NextWrite ==
    \/ OpenFile(FileA, CreateFlags, FALSE) /\ Handed(FewFiles)'
    \/ OpenFile(FileA, O_RDWR, FALSE) /\ ~NoHandle /\ Handed(FewFiles)'
    \/ WriteFile(FileA, << >>, FALSE) /\ Within(WriteCap, 0)'
    \/ \E h \in Handles : \E b \in WriteBufs : Write(h, b) /\ Within(WriteCap, 0)'

SpecWrite == Init /\ [][NextWrite]_vars

\* C30: a write that returns no error returns the length of what it was
\* given, has copied all of it into the buffer at the write cursor of the
\* handle and has moved that cursor on by that length; after every step the
\* write cursor of every handle is at most the capacity of the buffer of
\* its cell; and no step makes the capacity of a cell smaller.
C30_WriteNeverShort ==
    [][/\ \A h \in Handles :
            (ret'.op = "write" /\ ret'.h = h /\ ret'.err = "nil")
            => /\ ret'.n = Len(ret'.buf)
               /\ files'[h].wOff = files[h].wOff + Len(ret'.buf)
               /\ SubSeq(data'[files[h].fd], files[h].wOff + 1, files'[h].wOff) = ret'.buf
       /\ (ret'.op = "writeFile" /\ ret'.err = "nil") => ret'.n = Len(ret'.buf)
       /\ \A h \in Handles : files'[h].used => files'[h].wOff <= Len(data'[files'[h].fd])
       /\ \A p \in Paths : Len(data'[p]) >= Len(data[p])]_vars

\* a write of one byte has succeeded through a handle opened with
\* truncation, while the write cursor of another handle on the cell is
\* beyond the size the write has set
C30_Witness ==
    /\ ret.op = "write"
    /\ ret.err = "nil"
    /\ ret.n = 1
    /\ files[ret.h].wOff = 1
    /\ attrs[files[ret.h].fd].size = 1
    /\ \E g \in Handles \ {ret.h} :
          files[g].used /\ files[g].fd = files[ret.h].fd /\ files[g].wOff > 1

(***************************************************************************)
(* SpecFrame: what each method of File leaves alone.  Two handles on one   *)
(* regular file, the first creating it; each writes one byte at a time,    *)
(* reads one byte at its read cursor or at an offset, and seeks from the   *)
(* start.                                                                  *)
(***************************************************************************)
FrameCap == 6
FrameRLock == 2
FrameOffsets == {0, 1}

NextFrame ==
    \/ OpenFile(FileA, CreateFlags, FALSE) /\ NoHandle
    \/ OpenFile(FileA, O_RDWR, FALSE) /\ ~NoHandle /\ Handed(FewFiles)'
    \/ \E h \in Handles : Write(h, <<1>>) /\ Within(FrameCap, FrameRLock)'
    \/ \E h \in Handles : Read(h, 1) /\ Within(FrameCap, FrameRLock)'
    \/ \E h \in Handles : \E off \in FrameOffsets : ReadAt(h, 1, off) /\ Within(FrameCap, FrameRLock)'
    \/ \E h \in Handles : \E off \in FrameOffsets : Seek(h, off, SeekStart)

SpecFrame == Init /\ [][NextFrame]_vars

\* the step was a call of one of ops on handle h
CallOn(h, ops) == ret'.h = h /\ ret'.op \in ops

\* C31: seek, read and readAt leave the write cursor of their handle where
\* it was, write leaves its read cursor where it was, readAt leaves both,
\* no step changes a cursor of a handle other than the one it was called
\* on, and a handle that has just been handed out has both cursors at 0.
C31_CursorsIndependent ==
    [][\A h \in Handles :
        /\ CallOn(h, {"seek", "read", "readAt"}) => files'[h].wOff = files[h].wOff
        /\ CallOn(h, {"write", "readAt"}) => files'[h].rOff = files[h].rOff
        /\ (files[h].used /\ ~CallOn(h, HandleOps))
           => files'[h].rOff = files[h].rOff /\ files'[h].wOff = files[h].wOff
        /\ (~files[h].used /\ files'[h].used)
           => files'[h].rOff = 0 /\ files'[h].wOff = 0]_vars

\* a readAt has returned through a handle while another handle on the cell
\* has a different read cursor and a different write cursor, neither 0
C31_Witness ==
    /\ ret.op = "readAt"
    /\ ret.err = "nil"
    /\ \E g \in Handles \ {ret.h} :
          /\ files[g].used
          /\ files[g].fd = files[ret.h].fd
          /\ files[g].rOff > files[ret.h].rOff
          /\ files[g].wOff > files[ret.h].wOff
          /\ files[ret.h].wOff > 0

(***************************************************************************)
(* SpecAncestors: paths whose directories are not there, or are no         *)
(* directories.  OpenFile with the create flags, Create, WriteFile and     *)
(* MkdirAll on "b", "a/b" and "b/a", with a mode that has the directory    *)
(* bit and with one that has not, in trees where "a" and "b" are missing,  *)
(* directories or regular files.                                           *)
(***************************************************************************)
AncestorsCap == 1
\* the file "b" under as many directories "a" as the depth allows
DeepPath == [i \in 1..MaxDepth |-> IF i = MaxDepth THEN "b" ELSE "a"]
DeepFiles == {FileB, FileBA, DeepPath}
DeepDirs == {Dot, FileA, FileB, FileBA}

NextAncestors ==
    \/ \E p \in DeepFiles : \E mode \in BOOLEAN :
            OpenFile(p, CreateFlags, mode) /\ Handed(OneFile)'
    \/ \E p \in DeepFiles : Create(p) /\ Handed(OneFile)'
    \/ \E p \in DeepFiles : \E mode \in BOOLEAN :
            WriteFile(p, <<1>>, mode) /\ Within(AncestorsCap, 0)'
    \/ \E p \in DeepDirs : MkdirAll(p, FALSE)

SpecAncestors == Init /\ [][NextAncestors]_vars

\* the step was an open of p that may create: openFile with the create flag,
\* create or writeFile
CreateCall(p) ==
    /\ ret'.name = p
    /\ \/ ret'.op \in {"create", "writeFile"}
       \/ ret'.op = "openFile" /\ HasFlag(ret'.flag, O_CREATE)

\* p has directories above it, one of them at least is not there, and those
\* that are there are directories
MissingAncestors(p) ==
    /\ Len(p) > 1
    /\ \E a \in Ancestors(p) : entries[a] = "none"
    /\ \A a \in Ancestors(p) : entries[a] \in {"none", "dir"}

\* the step has returned no error, stat of every directory above p now
\* reports a directory and stat of p a regular file, and nothing that is
\* not on the way from the root to p was added or changed
CreatedWithAncestors(p) ==
    /\ ret'.err = "nil"
    /\ \A a \in Ancestors(p) :
          stat(Tree', Root, a).err = "nil" /\ IsDir(stat(Tree', Root, a))
    /\ stat(Tree', Root, p).err = "nil"
    /\ ~IsDir(stat(Tree', Root, p))
    /\ \A q \in Paths \ (Prefixes(p) \cup {Root}) :
          entries'[q] = entries[q] /\ attrs'[q] = attrs[q] /\ data'[q] = data[q]

FileOnPath(p) ==
    \/ /\ ret'.op = "mkdirAll"
       /\ ret'.name = p
       /\ (p = Dot \/ \E q \in Prefixes(p) : entries[q] = "fd")
    \/ /\ CreateCall(p)
       /\ \E q \in Ancestors(p) : entries[q] = "fd"

\* C33: mkdirAll of ".", mkdirAll of a path with a segment that names a
\* regular file, and an open with the create flag of a path below a regular
\* file do not crash and leave the tree as it was, every regular file still
\* a regular file.
C33_FileOnPathIsSafe ==
    [][\A p \in Paths :
        FileOnPath(p) => /\ ret'.err # "panic"
                         /\ \A q \in Paths : entries[q] = "fd" => entries'[q] = "fd"
                         /\ Tree' = Tree]_vars

(***************************************************************************)
(* SpecSub: the views of Sub.  A view is the directory node itself, which  *)
(* sub returns; nothing removes or replaces a directory,                   *)
(* so a call through the view of directory v is sub(v) followed by the     *)
(* call on what it returned.  "a" is made a directory from the root; files *)
(* and directories are made under it through the view and from the root,   *)
(* and read back the other way.                                            *)
(***************************************************************************)
SubCap == 1
SubRLock == 2
SubDirs == {Dot, FileA}
SubNames == {<<"a">>, <<"b">>}
SubBufs == {<<1>>, <<2>>}
\* the names of SubNames as the root sees them below "a"
SubPaths == {FileA \o n : n \in SubNames}

\* MemFS.WriteFile on the view of directory v
SubWriteFile(v, n, d) ==
    /\ Idle
    /\ sub(Tree, Root, v).err = "nil"
    /\ Let(writeFile(Tree, sub(Tree, Root, v).dir, n, d, FALSE, fdmu, now), LAMBDA r :
        /\ Len(r.S.data[r.file.fd]) <= MaxCap
        /\ SetTree(r.S)
        /\ fdmu' = [fdmu EXCEPT ![r.file.fd] = r.fdmu]
        /\ hi' = HiAfterWriteFile(r)
        /\ thr' = After(r.err)
        /\ ret' = [Call("writeFile") EXCEPT !.name = n, !.list = v, !.buf = d,
                                            !.err = r.err, !.n = r.n])
    /\ UNCHANGED <<files, now>>

\* MemFS.ReadFile on the view of directory v
SubReadFile(v, n) ==
    /\ Idle
    /\ sub(Tree, Root, v).err = "nil"
    /\ Let(readFile(Tree, sub(Tree, Root, v).dir, n, fdmu, now), LAMBDA r :
        /\ r.fdmu.r <= MaxRLock
        /\ fdmu' = [fdmu EXCEPT ![r.fd] = r.fdmu]
        /\ thr' = After(r.err)
        /\ ret' = [Call("readFile") EXCEPT !.name = n, !.list = v, !.err = r.err,
                                           !.out = r.out])
    /\ UNCHANGED <<entries, attrs, data, files, now, hi>>

\* MemFS.Mkdir on the view of directory v
SubMkdir(v, n) ==
    /\ Idle
    /\ sub(Tree, Root, v).err = "nil"
    /\ Let(sub(Tree, Root, v).dir, LAMBDA m :
       Let(IF CleanPath(n).err # "nil"
           THEN [err |-> CleanPath(n).err, dir |-> m, S |-> Tree]
           ELSE IF stat(Tree, m, n).err \notin {"nil", "ErrNotExist"}
           THEN [err |-> stat(Tree, m, n).err, dir |-> m, S |-> Tree]
           ELSE mkdir(Tree, m, n, FALSE, now),
           LAMBDA r :
               /\ SetTree(r.S)
               /\ ret' = [Call("mkdir") EXCEPT !.name = n, !.list = v, !.err = r.err]))
    /\ UNCHANGED <<fdmu, files, thr, now, hi>>

NextSub ==
    \/ MkdirAll(FileA, FALSE)
    \/ \E p \in SubDirs : Sub(p)
    \/ \E n \in SubNames : \E d \in SubBufs :
            SubWriteFile(FileA, n, d) /\ Within(SubCap, SubRLock)'
    \/ \E n \in SubNames : SubReadFile(FileA, n) /\ Within(SubCap, SubRLock)'
    \/ \E n \in SubNames : SubMkdir(FileA, n)
    \/ \E p \in SubPaths : \E d \in SubBufs :
            WriteFile(p, d, FALSE) /\ Within(SubCap, SubRLock)'
    \/ \E p \in SubPaths : ReadFile(p) /\ Within(SubCap, SubRLock)'

SpecSub == Init /\ [][NextSub]_vars

\* the step was a call of op that returned no error, on the view of "a" for
\* name n (through) or on the root for the path of n below "a"
ThroughView(op, n) ==
    ret'.op = op /\ ret'.err = "nil" /\ ret'.list = FileA /\ ret'.name = n
FromRoot(op, n) ==
    ret'.op = op /\ ret'.err = "nil" /\ ret'.list = Root /\ ret'.name = FileA \o n

\* C34: what writeFile has written through the view of "a" under name n is
\* what the root reads at "a/n", and stat from the root finds a regular
\* file there; a directory made through the view is a directory for the
\* root; what writeFile has written from the root at "a/n" is what the view
\* reads at n; a readFile through the view returns what a readFile from the
\* root would have returned; and sub(".") returns the filesystem it was
\* called on.
C34_SubSharesState ==
    [][/\ \A n \in SubNames :
            /\ ThroughView("writeFile", n)
               => /\ stat(Tree', Root, FileA \o n).err = "nil"
                  /\ ~IsDir(stat(Tree', Root, FileA \o n))
                  /\ readFile(Tree', Root, FileA \o n, fdmu', now').err = "nil"
                  /\ readFile(Tree', Root, FileA \o n, fdmu', now').out = ret'.buf
            /\ ThroughView("mkdir", n)
               => /\ stat(Tree', Root, FileA \o n).err = "nil"
                  /\ IsDir(stat(Tree', Root, FileA \o n))
            /\ FromRoot("writeFile", n)
               => /\ readFile(Tree', FileA, n, fdmu', now').err = "nil"
                  /\ readFile(Tree', FileA, n, fdmu', now').out = ret'.buf
            /\ ThroughView("readFile", n)
               => ret'.out = readFile(Tree, Root, FileA \o n, fdmu, now).out
       /\ (ret'.op = "sub" /\ ret'.name = Dot) => ret'.err = "nil" /\ ret'.list = Root
       /\ \A v \in {Root, FileA} : sub(Tree', v, Dot) = [err |-> "nil", dir |-> v]]_vars

\* the view of "a" has read the byte 2 at "b", a regular file for the root
\* at "a/b", next to the directory "a/a", which only the view makes
C34_Witness ==
    /\ ret.op = "readFile"
    /\ ret.list = FileA
    /\ ret.name = <<"b">>
    /\ ret.err = "nil"
    /\ ret.out = <<2>>
    /\ entries[FileAB] = "fd"
    /\ entries[<<"a", "a">>] = "dir"
====
